---- MODULE Spec2Model ----
(***************************************************************************)
(* A model of zen (src/zod.go): the converter that walks a graph of Go     *)
(* struct types and emits zod schema declarations.                          *)
(*                                                                          *)
(* Go strings that the code inspects (type names, json tags, validate      *)
(* tags) are sequences of one-character strings, so that strings.Split,    *)
(* strings.Contains, strings.Index ... are computed as the code computes   *)
(* them.  Emitted text is a sequence of tokens: literal pieces of text,    *)
(* and tokens for the places where the text names another schema.          *)
(*                                                                          *)
(* The recursion of the converter (AddType -> convertStructTopLevel ->     *)
(* convertStruct -> convertField -> ConvertType -> ...) is run one call or *)
(* return at a time on an explicit call stack, `calls`.                     *)
(***************************************************************************)
EXTENDS Integers, Sequences, FiniteSets, TLC

VARIABLES
    conf,       \* Converter.prefix, customTypes, ignoreTags (set by the options)
    outputs,    \* Converter.outputs : identity -> entry{order, data}
    structs,    \* Converter.structs : the insertion counter
    stack,      \* Converter.stack   : []meta{name, selfRef}
    calls,      \* the Go call stack of the conversion in flight
    ret,        \* the value returned by the call that has just returned
    status,     \* "idle", "running", "panicked" or "overflow"
    panicked,   \* the value of the last panic
    exported,   \* the text returned by the last Export
    ncalls,     \* number of API calls made on this converter
    cur,        \* the API call in flight (or the last one) and the registry before it
    probe       \* a field handed to isNullable / isOptional, and their answers

vars == <<conf, outputs, structs, stack, calls, ret, status, panicked, exported, probe,
          ncalls, cur>>

(***************************************************************************)
(* Bounds of the model.                                                     *)
(***************************************************************************)
\* API calls (AddType, Convert, ConvertSlice, Export) made on one converter.
MaxCalls == 2
\* Depth of the call stack at which the Go runtime's stack is taken to be
\* exhausted; larger than the depth any terminating conversion below needs.
MaxDepth == 12

(***************************************************************************)
(* Go strings                                                               *)
(***************************************************************************)
Min(S) == CHOOSE x \in S : \A y \in S : x <= y

\* The Go string with these characters, as text.
RECURSIVE Str(_)
Str(cs) == IF cs = <<>> THEN "" ELSE cs[1] \o Str(Tail(cs))

\* s[a:b] of Go (0-based, b exclusive).
Slice(s, a, b) == SubSeq(s, a + 1, b)

\* strings.Index: the 0-based index of the first occurrence of sub, or -1.
Index(s, sub) ==
    LET occ == {i \in 1..(Len(s) - Len(sub) + 1) : SubSeq(s, i, i + Len(sub) - 1) = sub}
    IN  IF occ = {} THEN -1 ELSE Min(occ) - 1

Contains(s, sub) == Index(s, sub) # -1

HasPrefix(s, p) == Len(s) >= Len(p) /\ SubSeq(s, 1, Len(p)) = p

TrimPrefix(s, p) == IF HasPrefix(s, p) THEN Slice(s, Len(p), Len(s)) ELSE s

\* strings.Split(s, sep) for a non-empty separator.
RECURSIVE Split(_, _)
Split(s, sep) ==
    LET i == Index(s, sep)
    IN  IF i = -1 THEN <<s>>
        ELSE <<Slice(s, 0, i)>> \o Split(Slice(s, i + Len(sep), Len(s)), sep)

\* strings.SplitN(s, sep, 2).
SplitN2(s, sep) ==
    LET i == Index(s, sep)
    IN  IF i = -1 THEN <<s>>
        ELSE <<Slice(s, 0, i), Slice(s, i + Len(sep), Len(s))>>

RECURSIVE Join(_, _)
Join(parts, sep) ==
    IF parts = <<>> THEN <<>>
    ELSE IF Len(parts) = 1 THEN parts[1]
    ELSE parts[1] \o sep \o Join(Tail(parts), sep)

RECURSIVE TrimLeft(_)
TrimLeft(s) == IF s # <<>> /\ s[1] = " " THEN TrimLeft(Tail(s)) ELSE s

RECURSIVE TrimRight(_)
TrimRight(s) ==
    IF s # <<>> /\ s[Len(s)] = " " THEN TrimRight(SubSeq(s, 1, Len(s) - 1)) ELSE s

TrimSpace(s) == TrimRight(TrimLeft(s))

Digits == <<"0", "1", "2", "3", "4", "5", "6", "7", "8", "9">>
IsDigit(c) == \E d \in 1..10 : Digits[d] = c
DigitVal(c) == (CHOOSE d \in 1..10 : Digits[d] = c) - 1

RECURSIVE Natural(_, _)
Natural(s, acc) ==
    IF s = <<>> THEN acc ELSE Natural(Tail(s), 10 * acc + DigitVal(s[1]))

\* strconv.Atoi: an optional sign and decimal digits.
Atoi(s) ==
    LET body == IF s # <<>> /\ s[1] \in {"-", "+"} THEN Tail(s) ELSE s
    IN  IF body = <<>> \/ \E i \in 1..Len(body) : ~IsDigit(body[i])
        THEN [err |-> TRUE, val |-> 0]
        ELSE [err |-> FALSE,
              val |-> IF s[1] = "-" THEN 0 - Natural(body, 0) ELSE Natural(body, 0)]

Lower == <<"a", "b", "c", "d", "e", "f", "g", "h", "i", "j", "k", "l", "m",
           "n", "o", "p", "q", "r", "s", "t", "u", "v", "w", "x", "y", "z">>
Upper == <<"A", "B", "C", "D", "E", "F", "G", "H", "I", "J", "K", "L", "M",
           "N", "O", "P", "Q", "R", "S", "T", "U", "V", "W", "X", "Y", "Z">>

\* strings.ToTitle of a one-character string.
ToTitle(c) ==
    IF \E i \in 1..26 : Lower[i] = c
    THEN Upper[CHOOSE i \in 1..26 : Lower[i] = c]
    ELSE c

\* The words the code looks for.
sComma     == <<",">>
sEq        == <<"=">>
sDive      == <<"d", "i", "v", "e">>
sCommaDive == <<",", "d", "i", "v", "e">>
sDiveComma == <<"d", "i", "v", "e", ",">>
sKeys      == <<"k", "e", "y", "s">>
sKeysComma == <<"k", "e", "y", "s", ",">>
sDiveKeys  == <<"d", "i", "v", "e", ",", "k", "e", "y", "s">>
sEndKeys   == <<",", "e", "n", "d", "k", "e", "y", "s">>
sRequired  == <<"r", "e", "q", "u", "i", "r", "e", "d">>
sOmitEmpty == <<"o", "m", "i", "t", "e", "m", "p", "t", "y">>
sOmitZero  == <<"o", "m", "i", "t", "z", "e", "r", "o">>
sTime      == <<"T", "i", "m", "e">>
(***************************************************************************)
(* reflect.Type: the Go types the converter is given.  A type is named by  *)
(* an id of TypeTable; `name` is reflect.Type.Name(), `pkg` is PkgPath().   *)
(***************************************************************************)
NoFields == <<>>

Basic(kind, name) ==
    [kind |-> kind, name |-> name, pkg |-> "", elem |-> "", key |-> "", len |-> 0,
     fields |-> NoFields]
PtrTo(elem) ==
    [kind |-> "ptr", name |-> <<>>, pkg |-> "", elem |-> elem, key |-> "", len |-> 0,
     fields |-> NoFields]
SliceOf(elem) ==
    [kind |-> "slice", name |-> <<>>, pkg |-> "", elem |-> elem, key |-> "", len |-> 0,
     fields |-> NoFields]
NamedSliceOf(name, pkg, elem) ==
    [kind |-> "slice", name |-> name, pkg |-> pkg, elem |-> elem, key |-> "", len |-> 0,
     fields |-> NoFields]
ArrayOf(n, elem) ==
    [kind |-> "array", name |-> <<>>, pkg |-> "", elem |-> elem, key |-> "", len |-> n,
     fields |-> NoFields]
MapOf(key, elem) ==
    [kind |-> "map", name |-> <<>>, pkg |-> "", elem |-> elem, key |-> key, len |-> 0,
     fields |-> NoFields]
StructOf(name, pkg, fields) ==
    [kind |-> "struct", name |-> name, pkg |-> pkg, elem |-> "", key |-> "", len |-> 0,
     fields |-> fields]

\* reflect.StructField: Name, Type, Tag.Get("json"), Tag.Get("validate"), Anonymous.
Field(name, type, json, validate) ==
    [name |-> name, type |-> type, json |-> json, validate |-> validate,
     anonymous |-> FALSE]

\* An embedded field: Anonymous is true and Name is the name of its type.
Embedded(name, type) == [Field(name, type, <<>>, <<>>) EXCEPT !.anonymous = TRUE]

TypeTable == [
    string  |-> Basic("string", <<"s", "t", "r", "i", "n", "g">>),
    int     |-> Basic("int", <<"i", "n", "t">>),
    bool    |-> Basic("bool", <<"b", "o", "o", "l">>),
    any     |-> Basic("interface", <<>>),
    chan    |-> Basic("chan", <<>>),
    PtrAny  |-> PtrTo("any"),
    Time    |-> StructOf(sTime, "time", <<Field("wall", "int", <<>>, <<>>)>>),
    \* type C struct{ X string }; type B struct{ C C }; type A struct{ B B; N int }
    C       |-> StructOf(<<"C">>, "p", <<Field("X", "string", <<>>, <<>>)>>),
    B       |-> StructOf(<<"B">>, "p", <<Field("C", "C", <<>>, <<>>)>>),
    A       |-> StructOf(<<"A">>, "p", <<Field("B", "B", <<>>, <<>>),
                                     Field("N", "int", <<>>, <<>>)>>),
    \* type Whim struct{ Wham *C }
    PtrC    |-> PtrTo("C"),
    Whim    |-> StructOf(<<"W", "h", "i", "m">>, "p", <<Field("Wham", "PtrC", <<>>, <<>>)>>),
    \* type Node struct{ Value int `json:"value"`; Next *Node `json:"next"` }
    Node    |-> StructOf(<<"N", "o", "d", "e">>, "p", <<Field("Value", "int", <<"v", "a", "l", "u", "e">>, <<>>),
                                        Field("Next", "PtrNode", <<"n", "e", "x", "t">>, <<>>)>>),
    PtrNode |-> PtrTo("Node"),
    \* type Parent struct{ Child *Node `json:"child"` }
    Parent  |-> StructOf(<<"P", "a", "r", "e", "n", "t">>, "p", <<Field("Child", "PtrNode", <<"c", "h", "i", "l", "d">>, <<>>)>>),
    \* type Item struct{ Children []*Item `json:"children"` }
    Item    |-> StructOf(<<"I", "t", "e", "m">>, "p",
                         <<Field("Children", "SlicePtrItem", <<"c", "h", "i", "l", "d", "r", "e", "n">>, <<>>)>>),
    PtrItem |-> PtrTo("Item"),
    SlicePtrItem |-> SliceOf("PtrItem"),
    \* type Tree struct{ Kids map[string]Tree; Pair [2]*Tree; In struct{ Self *Tree } }
    Tree    |-> StructOf(<<"T", "r", "e", "e">>, "p", <<Field("Kids", "MapTree", <<>>, <<>>),
                                        Field("Pair", "ArrPtrTree", <<>>, <<>>),
                                        Field("In", "InlTree", <<>>, <<>>)>>),
    MapTree |-> MapOf("string", "Tree"),
    PtrTree |-> PtrTo("Tree"),
    ArrPtrTree |-> ArrayOf(2, "PtrTree"),
    InlTree |-> StructOf(<<>>, "", <<Field("Self", "PtrTree", <<>>, <<>>)>>),
    \* type CycA struct{ B *CycB }; type CycB struct{ A *CycA }
    CycA    |-> StructOf(<<"C", "y", "c", "A">>, "p", <<Field("B", "PtrCycB", <<>>, <<>>)>>),
    CycB    |-> StructOf(<<"C", "y", "c", "B">>, "p", <<Field("A", "PtrCycA", <<>>, <<>>)>>),
    PtrCycA |-> PtrTo("CycA"),
    PtrCycB |-> PtrTo("CycB"),
    \* type Partial struct{ C C; X string `validate:"bad=1"` }
    Partial |-> StructOf(<<"P", "a", "r", "t", "i", "a", "l">>, "p", <<Field("C", "C", <<>>, <<>>),
                                           Field("X", "string", <<>>, <<"b", "a", "d", "=", "1">>)>>),
    \* type Chain []Chain; type Loop struct{ S Chain }
    Chain   |-> NamedSliceOf(<<"C", "h", "a", "i", "n">>, "p", "Chain"),
    Loop    |-> StructOf(<<"L", "o", "o", "p">>, "p", <<Field("S", "Chain", <<>>, <<>>)>>),
    \* package q: type C struct{ Y int }; package p: type Dup struct{ D q.C }
    QC      |-> StructOf(<<"C">>, "q", <<Field("Y", "int", <<>>, <<>>)>>),
    Dup     |-> StructOf(<<"D", "u", "p">>, "p", <<Field("D", "QC", <<>>, <<>>)>>),
    \* package dec: type Decimal struct{ V int }
    \* package p: type Money struct{ Amt dec.Decimal; Tip *dec.Decimal }
    Decimal |-> StructOf(<<"D", "e", "c", "i", "m", "a", "l">>, "dec", <<Field("V", "int", <<>>, <<>>)>>),
    PtrDecimal |-> PtrTo("Decimal"),
    Money   |-> StructOf(<<"M", "o", "n", "e", "y">>, "p", <<Field("Amt", "Decimal", <<>>, <<>>),
                                         Field("Tip", "PtrDecimal", <<>>, <<>>)>>),
    \* type Form struct{
    \*   Name string         `json:"name" validate:"required,min=3"`
    \*   Age  *int           `json:"age,omitempty" validate:"omitempty,gte=0"`
    \*   Tags []string       `validate:"min=1,dive,required"`
    \*   M    map[string]int `json:",omitempty" validate:"dive,keys,min=3,endkeys,max=4"`
    \*   When time.Time      `validate:"required"`
    \*   Any  *interface{}
    \*   Skip chan int       `json:"-"` }
    PtrInt  |-> PtrTo("int"),
    SliceString |-> SliceOf("string"),
    \* [][]string, []map[string]string, map[string][]string,
    \* map[string]map[string]string
    SliceSlice |-> SliceOf("SliceString"),
    MapStringString |-> MapOf("string", "string"),
    SliceMap |-> SliceOf("MapStringString"),
    MapSlice |-> MapOf("string", "SliceString"),
    MapMap  |-> MapOf("string", "MapStringString"),
    MapStringInt |-> MapOf("string", "int"),
    \* Records with an excluded field (json:"-"), each followed by the record
    \* of the same name, in another package, that has no such field.
    \* type Omit struct{ Name string `json:"name"`
    \*                   Hidden B `json:"-" validate:"bad=1"`; N int }
    Omit    |-> StructOf(<<"O", "m", "i", "t">>, "p",
                   <<Field("Name", "string", <<"n", "a", "m", "e">>, <<>>),
                     Field("Hidden", "B", <<"-">>, <<"b", "a", "d", "=", "1">>),
                     Field("N", "int", <<>>, <<>>)>>),
    OmitBare |-> StructOf(<<"O", "m", "i", "t">>, "q",
                   <<Field("Name", "string", <<"n", "a", "m", "e">>, <<>>),
                     Field("N", "int", <<>>, <<>>)>>),
    \* type Gap struct{ Skip chan int `json:"-,omitempty"`; Inner C }
    Gap     |-> StructOf(<<"G", "a", "p">>, "p",
                   <<Field("Skip", "chan", <<"-", ",", "o", "m", "i", "t", "e", "m", "p", "t", "y">>, <<>>),
                     Field("Inner", "C", <<>>, <<>>)>>),
    GapBare |-> StructOf(<<"G", "a", "p">>, "q", <<Field("Inner", "C", <<>>, <<>>)>>),
    \* type Quiet struct{ X string; B `json:"-"`; Next *Node `json:"-"` }
    Quiet   |-> StructOf(<<"Q", "u", "i", "e", "t">>, "p",
                   <<Field("X", "string", <<>>, <<>>),
                     [Embedded("B", "B") EXCEPT !.json = <<"-">>],
                     Field("Next", "PtrNode", <<"-">>, <<>>)>>),
    QuietBare |-> StructOf(<<"Q", "u", "i", "e", "t">>, "q", <<Field("X", "string", <<>>, <<>>)>>),
    Form    |-> StructOf(<<"F", "o", "r", "m">>, "p",
                   <<Field("Name", "string", <<"n", "a", "m", "e">>, <<"r", "e", "q", "u", "i", "r", "e", "d", ",", "m", "i", "n", "=", "3">>),
                     Field("Age", "PtrInt", <<"a", "g", "e", ",", "o", "m", "i", "t", "e", "m", "p", "t", "y">>, <<"o", "m", "i", "t", "e", "m", "p", "t", "y", ",", "g", "t", "e", "=", "0">>),
                     Field("Tags", "SliceString", <<>>, <<"m", "i", "n", "=", "1", ",", "d", "i", "v", "e", ",", "r", "e", "q", "u", "i", "r", "e", "d">>),
                     Field("M", "MapStringInt", <<",", "o", "m", "i", "t", "e", "m", "p", "t", "y">>,
                           <<"d", "i", "v", "e", ",", "k", "e", "y", "s", ",", "m", "i", "n", "=", "3", ",", "e", "n", "d", "k", "e", "y", "s", ",", "m", "a", "x", "=", "4">>),
                     Field("When", "Time", <<>>, <<"r", "e", "q", "u", "i", "r", "e", "d">>),
                     Field("Any", "PtrAny", <<>>, <<>>),
                     Field("Skip", "chan", <<"-">>, <<>>)>>),
    \* field types of the nullability cases: **int, *[]string, *map[string]int,
    \* **interface{}, [2]int
    PtrPtrInt |-> PtrTo("PtrInt"),
    PtrSliceString |-> PtrTo("SliceString"),
    PtrMapStringInt |-> PtrTo("MapStringInt"),
    PtrPtrAny |-> PtrTo("PtrAny"),
    ArrInt  |-> ArrayOf(2, "int"),
    \* type Wire struct{ Ch chan int }
    Wire    |-> StructOf(<<"W", "i", "r", "e">>, "p", <<Field("Ch", "chan", <<>>, <<>>)>>),
    \* package optional: type Optional[T any] []T
    Optional |-> NamedSliceOf(<<"O", "p", "t", "i", "o", "n", "a", "l", "[", "s", "t", "r", "i", "n", "g", "]">>, "optional", "string"),
    PtrOptional |-> PtrTo("Optional"),
    \* type Ext struct{ C; Tags []string }
    Ext     |-> StructOf(<<"E", "x", "t">>, "p", <<Embedded("C", "C"),
                                              Field("Tags", "SliceString", <<>>, <<>>)>>),
    \* type ExtNode struct{ C; Next *ExtNode }
    ExtNode |-> StructOf(<<"E", "x", "t", "N", "o", "d", "e">>, "p",
                         <<Embedded("C", "C"), Field("Next", "PtrExtNode", <<>>, <<>>)>>),
    PtrExtNode |-> PtrTo("ExtNode")
]

TypeIds == DOMAIN TypeTable

Kind(t) == TypeTable[t].kind
Elem(t) == TypeTable[t].elem
Key(t)  == TypeTable[t].key
NumField(t) == Len(TypeTable[t].fields)
FieldAt(t, i) == TypeTable[t].fields[i]

\* The values a caller passes to AddType, Convert and ConvertSlice.
Roots == {"A", "C", "Whim", "Node", "Tree", "CycA", "Partial", "Loop", "Dup", "Form",
          "Ext", "ExtNode"}
(***************************************************************************)
(* Names                                                                    *)
(***************************************************************************)
RECURSIVE TitleArgs(_)
TitleArgs(args) ==
    IF args = <<>> THEN <<>>
    ELSE <<ToTitle(Head(args)[1])>> \o Tail(Head(args)) \o TitleArgs(Tail(args))

\* getTypeNameWithGenerics: "Pair[string,int]" becomes "PairStringInt".
getTypeNameWithGenerics(name) ==
    LET typeArgsIdx == Index(name, <<"[">>)
    IN  IF typeArgsIdx = -1 THEN name
        ELSE Slice(name, 0, typeArgsIdx)
             \o TitleArgs(Split(Slice(name, typeArgsIdx + 1, Len(name) - 1), sComma))

\* typeName: the identity of a struct type (through pointers, slices and maps).
RECURSIVE typeName(_)
typeName(t) ==
    CASE Kind(t) = "struct" -> Str(getTypeNameWithGenerics(TypeTable[t].name))
      [] Kind(t) \in {"ptr", "slice", "map"} -> typeName(Elem(t))
      [] OTHER -> "UNKNOWN"

schemaName(prefix, name) == prefix \o name \o "Schema"

\* fieldName without the json tag: the Go name of the field.
fieldNameGo(input) == input.name

\* fieldName: the first part of the json tag when it is not empty, else the
\* Go name of the field.
fieldName(input) ==
    IF input.json # <<>> /\ Len(Split(input.json, sComma)[1]) > 0
    THEN Str(Split(input.json, sComma)[1])
    ELSE input.name

isGeneric(t) == Contains(TypeTable[t].name, <<"[">>)

\* getFullName: package path "." type name, generic arguments stripped.
getFullName(t) ==
    LET name == TypeTable[t].name
        typename == IF isGeneric(t) THEN Slice(name, 0, Index(name, <<"[">>)) ELSE name
    IN  TypeTable[t].pkg \o "." \o Str(typename)

\* typeMapping: the zod builder of a scalar kind ("" when the kind has none).
typeMapping(kind) ==
    CASE kind = "bool" -> "boolean"
      [] kind = "int" -> "number"
      [] kind = "string" -> "string"
      [] kind = "interface" -> "any"
      [] OTHER -> ""

(***************************************************************************)
(* Zones of a validate tag                                                  *)
(***************************************************************************)
\* getValidateCurrent: the part of the tag before the first ",dive".
getValidateCurrent(validate) ==
    IF HasPrefix(validate, sDive) THEN <<>>
    ELSE IF Contains(validate, sCommaDive) THEN Split(validate, sCommaDive)[1]
    ELSE validate

\* getValidateAfterDive: what follows the first part that is "dive".
getValidateAfterDive(validate) ==
    IF validate = <<>> THEN <<>>
    ELSE LET parts == Split(validate, sComma)
             hits == {i \in 1..Len(parts) : TrimSpace(parts[i]) = sDive}
         IN  IF hits = {} THEN <<>>
             ELSE Join(SubSeq(parts, Min(hits) + 1, Len(parts)), sComma)

\* getValidateKeys: what lies between "keys," and ",endkeys".
getValidateKeys(validate) ==
    IF Contains(validate, sKeys)
    THEN LET removedSuffix == SplitN2(validate, sEndKeys)[1]
             parts == SplitN2(removedSuffix, sKeysComma)
         IN  IF Len(parts) = 2 THEN parts[2] ELSE <<>>
    ELSE <<>>

\* getValidateValues: what applies to the values of a map.  The code indexes
\* the result of SplitN with [1]; when there is no second piece Go panics
\* with "index out of range".
getValidateValues(validate) ==
    LET upTo(removedPrefix) ==
            IF Contains(removedPrefix, sCommaDive)
            THEN SplitN2(removedPrefix, sCommaDive)[1]
            ELSE removedPrefix
    IN  IF Contains(validate, sDiveKeys)
        THEN LET pieces == SplitN2(validate, sEndKeys)
             IN  IF Len(pieces) < 2 THEN [panic |-> TRUE, v |-> <<>>]
                 ELSE [panic |-> FALSE, v |-> TrimPrefix(upTo(pieces[2]), sComma)]
        ELSE IF Contains(validate, sDive)
        THEN LET pieces == SplitN2(validate, sDiveComma)
             IN  IF Len(pieces) < 2 THEN [panic |-> TRUE, v |-> <<>>]
                 ELSE [panic |-> FALSE, v |-> upTo(pieces[2])]
        ELSE [panic |-> FALSE, v |-> <<>>]

(***************************************************************************)
(* Nullability and optionality of a field                                   *)
(***************************************************************************)
\* isInterface: whether the first non-pointer type is an interface.
RECURSIVE FirstNonPointer(_)
FirstNonPointer(t) == IF Kind(t) = "ptr" THEN FirstNonPointer(Elem(t)) ELSE t

\* isInterface without the loop over the pointers.
isInterfaceDirect(field) == Kind(field.type) = "interface"

isInterface(field) == Kind(FirstNonPointer(field.type)) = "interface"

\* The json tag asks for the zero value to be left out.
JsonOmits(field) ==
    Contains(field.json, sOmitEmpty) \/ Contains(field.json, sOmitZero)

isNullable(field) ==
    LET validateCurrent == getValidateCurrent(field.validate)
    IN  IF isInterface(field) \/ Contains(validateCurrent, sRequired) THEN FALSE
        ELSE IF Contains(validateCurrent, sEq) /\ ~Contains(validateCurrent, sOmitEmpty)
        THEN FALSE
        ELSE IF Kind(field.type) = "ptr"
        THEN IF JsonOmits(field)
             THEN Kind(Elem(field.type)) \in {"ptr", "slice", "map"}
             ELSE TRUE
        ELSE IF Kind(field.type) \in {"slice", "map"} THEN ~JsonOmits(field)
        ELSE FALSE

\* isOptional without its tests of the kind and of the validate tag.
isOptionalOmitsOnly(field) == JsonOmits(field)

isOptional(field) ==
    LET validateCurrent == getValidateCurrent(field.validate)
    IN  IF Kind(field.type) = "struct" \/ isInterface(field)
           \/ Contains(validateCurrent, sRequired)
        THEN FALSE
        ELSE IF Contains(validateCurrent, sEq) /\ ~Contains(validateCurrent, sOmitEmpty)
        THEN FALSE
        ELSE JsonOmits(field)
(***************************************************************************)
(* Emitted text                                                             *)
(***************************************************************************)
\* A piece of literal text.
L(s) == <<[t |-> "lit", v |-> s]>>
\* schemaName(prefix, name) used as a value: the schema of another record.
RefTok(name) == <<[t |-> "ref", v |-> name]>>
\* z.lazy(() => schemaName(prefix, name)): a deferred reference.
LazyTok(name) == <<[t |-> "lazy", v |-> name]>>
\* prefix + name used as a type in an explicit type alias.
TypeTok(name) == <<[t |-> "type", v |-> name]>>

\* The characters of a Go string, as literal text.
V(chars) == L(Str(chars))

RECURSIVE indentation(_)
indentation(level) == IF level <= 0 THEN "" ELSE "  " \o indentation(level - 1)

RECURSIVE Render(_, _)
Render(text, prefix) ==
    IF text = <<>> THEN ""
    ELSE LET tok == Head(text)
             here == CASE tok.t = "lit" -> tok.v
                       [] tok.t = "ref" -> schemaName(prefix, tok.v)
                       [] tok.t = "lazy" ->
                            "z.lazy(() => " \o schemaName(prefix, tok.v) \o ")"
                       [] tok.t = "type" -> prefix \o tok.v
         IN  here \o Render(Tail(text), prefix)


(***************************************************************************)
(* Validate tags.  Every operator below returns a record whose `panic` is   *)
(* TRUE where the code panics.                                              *)
(***************************************************************************)
checkIsIgnored(c, part) == Str(part) \in c.ignoreTags

\* preprocessValidationTagPart: `done` when the part needs no further work
\* (empty, ignored, or handled by a custom tag); else its name and value.
\* A custom tag's text goes to the refines when it starts with ".refine".
preprocessTrimmed(c, part) ==
    LET idx == Index(part, sEq)
        valName == IF idx = -1 THEN part ELSE Slice(part, 0, idx)
        valValue == IF idx = -1 THEN <<>> ELSE Slice(part, idx + 1, Len(part))
        none == [panic |-> FALSE, done |-> TRUE, valName |-> <<>>, valValue |-> <<>>,
                 refine |-> <<>>, append |-> <<>>]
    IN  IF part = <<>> THEN none
        ELSE IF idx = 0 \/ idx = Len(part) - 1
        THEN [none EXCEPT !.panic = TRUE]
        ELSE IF checkIsIgnored(c, valName) THEN none
        ELSE IF Str(valName) \in DOMAIN c.customTags
        THEN LET v == c.customTags[Str(valName)]
             IN  IF HasPrefix(v, <<".", "r", "e", "f", "i", "n", "e">>)
                 THEN [none EXCEPT !.refine = V(v)]
                 ELSE [none EXCEPT !.append = V(v)]
        ELSE [none EXCEPT !.done = FALSE, !.valName = valName, !.valValue = valValue]

preprocessValidationTagPart(c, rawPart) == preprocessTrimmed(c, TrimSpace(rawPart))

NoTags == [panic |-> FALSE, msg |-> "", base |-> <<>>, app |-> <<>>, refines |-> <<>>,
           top |-> FALSE, hasBase |-> FALSE, stop |-> FALSE]

PanicTags(acc, msg) == [acc EXCEPT !.panic = TRUE, !.msg = msg]
AppendTag(acc, text) == [acc EXCEPT !.app = @ \o text]

\* A RefineTag that writes the refinement where the suffixes are written.
RefineTagInPlace(acc, text) == [acc EXCEPT !.app = @ \o text]

RefineTag(acc, text) == [acc EXCEPT !.refines = @ \o text]
BaseTag(acc, text) ==
    [acc EXCEPT !.base = @ \o text, !.top = TRUE, !.hasBase = TRUE]

\* What preprocessValidationTagPart did to the builders of its caller.
Preprocessed(acc, pre) ==
    IF pre.panic THEN PanicTags(acc, "invalid validation")
    ELSE [acc EXCEPT !.app = @ \o pre.append, !.refines = @ \o pre.refine]

\* One part of a validate tag in validateString.  Of the format validators
\* (email, url, uuid, the regular expressions ...) only email is modelled.
stringTag(acc, pre) ==
    LET n == Str(pre.valName)
        v == pre.valValue
        num == Atoi(v)
    IN  IF pre.panic \/ pre.done THEN Preprocessed(acc, pre)
        ELSE IF v # <<>>
        THEN CASE n = "len" -> AppendTag(acc, L(".length(") \o V(v) \o L(")"))
               [] n = "min" -> AppendTag(acc, L(".min(") \o V(v) \o L(")"))
               [] n = "max" -> AppendTag(acc, L(".max(") \o V(v) \o L(")"))
               [] n = "gt" ->
                    IF num.err THEN PanicTags(acc, "invalid gt value for string length")
                    ELSE AppendTag(acc, L(".min(") \o L(ToString(num.val + 1)) \o L(")"))
               [] n = "gte" -> AppendTag(acc, L(".min(") \o V(v) \o L(")"))
               [] n = "lt" ->
                    IF num.err THEN PanicTags(acc, "invalid lt value for string length")
                    ELSE AppendTag(acc, L(".max(") \o L(ToString(num.val - 1)) \o L(")"))
               [] n = "lte" -> AppendTag(acc, L(".max(") \o V(v) \o L(")"))
               [] n = "contains" -> AppendTag(acc, L(".includes(\"") \o V(v) \o L("\")"))
               [] n = "startswith" ->
                    AppendTag(acc, L(".startsWith(\"") \o V(v) \o L("\")"))
               [] n = "endswith" -> AppendTag(acc, L(".endsWith(\"") \o V(v) \o L("\")"))
               [] n = "eq" ->
                    RefineTag(acc, L(".refine((val) => val === \"") \o V(v)
                        \o L("\", { message: \"String must be equal to '") \o V(v)
                        \o L("'\" })"))
               [] n = "ne" ->
                    RefineTag(acc, L(".refine((val) => val !== \"") \o V(v)
                        \o L("\", { message: \"String must not be equal to '") \o V(v)
                        \o L("'\" })"))
               [] OTHER -> PanicTags(acc, "unknown string validation with value")
        ELSE CASE n = "omitempty" -> acc
               [] n = "required" -> AppendTag(acc, L(".min(1)"))
               [] n = "email" ->
                    IF acc.hasBase
                    THEN PanicTags(acc, "cannot combine 'email' with other top-level string validation")
                    ELSE BaseTag(acc, L("z.email()"))
               [] OTHER -> PanicTags(acc, "unknown string validation without value")

\* One part of a validate tag in validateNumber (oneof is not modelled).
numberTag(acc, pre) ==
    LET n == Str(pre.valName)
        v == pre.valValue
    IN  IF pre.panic \/ pre.done THEN Preprocessed(acc, pre)
        ELSE IF v # <<>>
        THEN CASE n = "gt" -> AppendTag(acc, L(".gt(") \o V(v) \o L(")"))
               [] n \in {"gte", "min"} -> AppendTag(acc, L(".gte(") \o V(v) \o L(")"))
               [] n = "lt" -> AppendTag(acc, L(".lt(") \o V(v) \o L(")"))
               [] n \in {"lte", "max"} -> AppendTag(acc, L(".lte(") \o V(v) \o L(")"))
               [] n \in {"eq", "len"} ->
                    RefineTag(acc, L(".refine((val) => val === ") \o V(v)
                        \o L(", { message: \"Number must be equal to ") \o V(v)
                        \o L("\" })"))
               [] n = "ne" ->
                    RefineTag(acc, L(".refine((val) => val !== ") \o V(v)
                        \o L(", { message: \"Number must not be equal to ") \o V(v)
                        \o L("\" })"))
               [] OTHER -> PanicTags(acc, "unknown number validation with value")
        ELSE CASE n = "omitempty" -> acc
               [] n = "required" ->
                    RefineTag(acc, L(".refine((val) => val !== 0, { message: \"Number is required and cannot be 0\" })"))
               [] OTHER -> PanicTags(acc, "unknown number validation without value")

\* One part of the current zone of a slice or array in convertSliceAndArray.
sliceTag(acc, pre, isArray) ==
    LET n == Str(pre.valName)
        v == pre.valValue
        num == Atoi(v)
    IN  IF pre.panic \/ pre.done THEN Preprocessed(acc, pre)
        ELSE IF isArray THEN PanicTags(acc, "unknown validation")
        ELSE IF v # <<>>
        THEN CASE n \in {"min", "gte"} -> AppendTag(acc, L(".min(") \o V(v) \o L(")"))
               [] n \in {"max", "lte"} -> AppendTag(acc, L(".max(") \o V(v) \o L(")"))
               [] n \in {"len", "eq"} -> AppendTag(acc, L(".length(") \o V(v) \o L(")"))
               [] n = "ne" ->
                    RefineTag(acc, L(".refine((val) => val.length !== ") \o V(v) \o L(")"))
               [] n = "gt" ->
                    IF num.err \/ num.val < 0 THEN PanicTags(acc, "invalid gt value")
                    ELSE AppendTag(acc, L(".min(") \o L(ToString(num.val + 1)) \o L(")"))
               [] n = "lt" ->
                    IF num.err \/ num.val <= 0 THEN PanicTags(acc, "invalid lt value")
                    ELSE AppendTag(acc, L(".max(") \o L(ToString(num.val - 1)) \o L(")"))
               [] OTHER -> PanicTags(acc, "unknown validation")
        ELSE CASE n \in {"omitempty", "required"} -> acc
               [] n = "dive" -> [acc EXCEPT !.stop = TRUE]
               [] OTHER -> PanicTags(acc, "unknown validation")

\* One part of the tag of a map in convertMap.
mapTag(acc, pre) ==
    LET n == Str(pre.valName)
        v == pre.valValue
        count(op, why) ==
            RefineTag(acc, L(".refine((val) => Object.keys(val).length " \o op \o " ")
                \o V(v) \o L(", '" \o why \o "')"))
    IN  IF pre.panic \/ pre.done THEN Preprocessed(acc, pre)
        ELSE IF v # <<>>
        THEN CASE n \in {"min", "gte"} -> count(">=", "Map too small")
               [] n \in {"max", "lte"} -> count("<=", "Map too large")
               [] n \in {"len", "eq"} -> count("===", "Map wrong size")
               [] n = "ne" -> count("!==", "Map wrong size")
               [] n = "gt" -> count(">", "Map too small")
               [] n = "lt" -> count("<", "Map too large")
               [] OTHER -> PanicTags(acc, "unknown validation")
        ELSE CASE n \in {"omitempty", "required"} -> acc
               [] n = "dive" -> [acc EXCEPT !.stop = TRUE]
               [] OTHER -> PanicTags(acc, "unknown validation")

\* One part of the tag of a struct in ConvertType.
structTag(acc, pre, name) ==
    LET n == Str(pre.valName)
    IN  IF pre.panic \/ pre.done THEN Preprocessed(acc, pre)
        ELSE IF n = "required"
        THEN IF name = "Time"
             THEN RefineTag(acc, L(".refine((val) => val.getTime() !== new Date('0001-01-01T00:00:00Z').getTime() && val.getTime() !== new Date(0).getTime(), 'Invalid date')"))
             ELSE acc
        ELSE PanicTags(acc, "unknown validation")

validateStringPart(c, acc, part) ==
    stringTag(acc, preprocessValidationTagPart(c, part))
validateNumberPart(c, acc, part) ==
    numberTag(acc, preprocessValidationTagPart(c, part))
convertSlicePart(c, acc, part, isArray) ==
    sliceTag(acc, preprocessValidationTagPart(c, part), isArray)
convertMapPart(c, acc, part) ==
    mapTag(acc, preprocessValidationTagPart(c, part))
convertStructPart(c, acc, part, name) ==
    structTag(acc, preprocessValidationTagPart(c, part), name)

\* The loops over the parts of a tag: `for _, part := range parts`, left at
\* the first panic and at `break forParts`.
RECURSIVE validateStringLoop(_, _, _)
validateStringLoop(c, acc, parts) ==
    IF parts = <<>> \/ acc.panic THEN acc
    ELSE validateStringLoop(c, validateStringPart(c, acc, Head(parts)), Tail(parts))

RECURSIVE validateNumberLoop(_, _, _)
validateNumberLoop(c, acc, parts) ==
    IF parts = <<>> \/ acc.panic THEN acc
    ELSE validateNumberLoop(c, validateNumberPart(c, acc, Head(parts)), Tail(parts))

RECURSIVE convertSliceLoop(_, _, _, _)
convertSliceLoop(c, acc, parts, isArray) ==
    IF parts = <<>> \/ acc.panic \/ acc.stop THEN acc
    ELSE convertSliceLoop(c, convertSlicePart(c, acc, Head(parts), isArray),
                          Tail(parts), isArray)

RECURSIVE convertMapLoop(_, _, _)
convertMapLoop(c, acc, parts) ==
    IF parts = <<>> \/ acc.panic \/ acc.stop THEN acc
    ELSE convertMapLoop(c, convertMapPart(c, acc, Head(parts)), Tail(parts))

RECURSIVE convertStructLoop(_, _, _, _)
convertStructLoop(c, acc, parts, name) ==
    IF parts = <<>> \/ acc.panic THEN acc
    ELSE convertStructLoop(c, convertStructPart(c, acc, Head(parts), name),
                           Tail(parts), name)

\* validateString and validateNumber: the text to chain, and whether it is a
\* whole schema (isTopLevel) rather than a suffix of z.string() / z.number().
Validated(acc) ==
    [panic |-> acc.panic, msg |-> acc.msg,
     text |-> acc.base \o acc.app \o acc.refines, top |-> acc.top]

validateString(c, validate) ==
    Validated(validateStringLoop(c, NoTags, Split(validate, sComma)))

validateNumber(c, validate) ==
    Validated(validateNumberLoop(c, NoTags, Split(validate, sComma)))
(***************************************************************************)
(* Scalars, map keys and explicit types                                     *)
(***************************************************************************)
\* What ConvertType and convertKeyType return: a schema, or a panic.
Converted(text) == [panic |-> FALSE, msg |-> "", text |-> text]
Panicked(msg) == [panic |-> TRUE, msg |-> msg, text |-> <<>>]

\* The validations `v` of a scalar: a whole schema when isTopLevel, else
\* chained to `zod`; `chain` is FALSE where the code drops the suffix.
withValidations(v, zod, chain) ==
    IF v.panic THEN Panicked(v.msg)
    ELSE IF v.top THEN Converted(v.text)
    ELSE IF chain /\ v.text # <<>> THEN Converted(L(zod) \o v.text)
    ELSE Converted(L(zod))

\* The last lines of ConvertType: boolean, number, string, any.
convertScalar(c, t, validate) ==
    LET zodType == typeMapping(Kind(t))
    IN  IF zodType = "" THEN Panicked("cannot handle")
        ELSE IF zodType = "string"
        THEN IF validate # <<>>
             THEN withValidations(validateString(c, validate), "z.string()", TRUE)
             ELSE Converted(L("z.string()"))
        ELSE IF zodType = "number"
        THEN IF validate # <<>>
             THEN withValidations(validateNumber(c, validate), "z.number()", TRUE)
             ELSE Converted(L("z.number()"))
        ELSE Converted(L("z." \o zodType \o "()"))

\* convertKeyType: the schema of the keys of a map.  For a number key the
\* text of validateNumber is used only when it is a whole schema.
convertKeyType(c, t, validate) ==
    LET zodType == typeMapping(Kind(t))
    IN  IF TypeTable[t].name = sTime THEN Converted(L("z.coerce.date()"))
        ELSE IF zodType \notin {"string", "number"}
        THEN Panicked("cannot handle key type")
        ELSE IF zodType = "string"
        THEN IF validate # <<>>
             THEN withValidations(validateString(c, validate), "z.string()", TRUE)
             ELSE Converted(L("z.string()"))
        ELSE IF validate # <<>>
             THEN withValidations(validateNumber(c, validate), "z.coerce.number()", FALSE)
             ELSE Converted(L("z.coerce.number()"))

\* A token that stands for a panic inside getType.
CannotHandle == <<[t |-> "panic", v |-> "cannot handle"]>>

\* getType, getTypeSliceAndArray, getTypeMap, getTypeStruct, getTypeField:
\* the explicit TypeScript type of a Go type, for a self-referential record.
RECURSIVE getType(_, _, _)
RECURSIVE getTypeFields(_, _, _, _)

getTypeField(c, f, indent) ==
    LET optional == isOptional(f)
        nullable == isNullable(f)
        isCustom == getFullName(f.type) \in c.customTypes
    IN  IF fieldName(f) = "-" THEN <<>>
        ELSE L(indentation(indent) \o fieldName(f)
               \o (IF optional THEN "?" ELSE "") \o ": ")
             \o getType(c, f.type, indent)
             \o L((IF nullable /\ ~isCustom THEN " | null" ELSE "")
                  \o (IF optional THEN " | undefined" ELSE "") \o ",\n")

getTypeFields(c, t, i, indent) ==
    IF i > NumField(t) THEN <<>>
    ELSE getTypeField(c, FieldAt(t, i), indent) \o getTypeFields(c, t, i + 1, indent)

getTypeStruct(c, t, indent) ==
    L("{\n") \o getTypeFields(c, t, 1, indent + 1) \o L(indentation(indent) \o "}")

getType(c, t, indent) ==
    CASE Kind(t) = "ptr" -> getType(c, Elem(t), indent)
      [] Kind(t) \in {"slice", "array"} -> getType(c, Elem(t), indent) \o L("[]")
      [] Kind(t) = "map" ->
            L("Record<") \o getType(c, Key(t), indent) \o L(", ")
            \o getType(c, Elem(t), indent) \o L(">")
      [] Kind(t) = "struct" ->
            IF TypeTable[t].name = <<>> THEN getTypeStruct(c, t, indent)
            ELSE IF TypeTable[t].name = sTime THEN L("date")
            ELSE TypeTok(typeName(t))
      [] OTHER ->
            IF typeMapping(Kind(t)) = "" THEN CannotHandle
            ELSE L(typeMapping(Kind(t)))
(***************************************************************************)
(* The converter                                                            *)
(***************************************************************************)
\* The options a converter is built with (NewConverterWithOpts).
DecimalType == "dec.Decimal"
OptionalType == "optional.Optional"

Confs == {
    [prefix |-> "", customTypes |-> {}, customTags |-> <<>>, ignoreTags |-> {}],
    [prefix |-> "Api", customTypes |-> {DecimalType}, customTags |-> <<>>,
     ignoreTags |-> {}]
}

\* A custom type handler (CustomFn): DecimalFunc returns "z.string()",
\* OptionalFunc the element type with ".optional().nullish()".
customFn(fullName) ==
    IF fullName = OptionalType THEN L("z.string().optional().nullish()")
    ELSE L("z.string()")

NoEntries == [n \in {} |-> 0]

\* c.outputs[name] = entry{order, data}
Store(outs, name, order, data) ==
    [n \in DOMAIN outs \cup {name} |->
        IF n = name THEN [order |-> order, data |-> data] ELSE outs[n]]

\* addSchema that stores nothing.
addSchemaDropped(outs, cnt, name, data) == [outputs |-> outs, structs |-> cnt]

\* addSchema without its test: the last writer wins.
addSchemaOverwrites(outs, cnt, name, data) ==
    [outputs |-> Store(outs, name, cnt, data), structs |-> cnt + 1]

\* addSchema that leaves the counter alone: the next entry gets the same index.
addSchemaSameIndex(outs, cnt, name, data) ==
    IF name \in DOMAIN outs
    THEN [outputs |-> outs, structs |-> cnt]
    ELSE [outputs |-> Store(outs, name, cnt, data), structs |-> cnt]

\* addSchema: the first entry of a name stays.
addSchema(outs, cnt, name, data) ==
    IF name \in DOMAIN outs
    THEN [outputs |-> outs, structs |-> cnt]
    ELSE [outputs |-> Store(outs, name, cnt, data), structs |-> cnt + 1]

\* A root stored ahead of everything instead of under the counter.
addRootFirst(outs, cnt, name, data) ==
    [outputs |-> Store(outs, name, 0, data), structs |-> cnt + 1]

\* The last lines of AddType: the converted root is stored under its name.
addRoot(outs, cnt, name, data) ==
    [outputs |-> Store(outs, name, cnt, data), structs |-> cnt + 1]

\* A Less that orders nothing: sort.Sort may leave the entries in any order.
byOrderNever(a, b) == FALSE

\* A Less that orders the entries from the last inserted to the first.
byOrderMore(a, b) == a.order > b.order

\* byOrder.Less
byOrderLess(a, b) == a.order < b.order

\* sort.Sort(byOrder(sorted)) of the entries of the map, whatever order the
\* map was ranged over: the sequences with no entry before a smaller one.
RECURSIVE Sorted(_, _)
Sorted(outs, names) ==
    IF names = {} THEN {<<>>}
    ELSE UNION {
            {<<outs[n]>> \o rest : rest \in Sorted(outs, names \ {n})} :
            n \in {m \in names : \A k \in names : ~byOrderLess(outs[k], outs[m])}}

RECURSIVE exportText(_, _)
exportText(c, sorted) ==
    IF sorted = <<>> THEN ""
    ELSE Render(Head(sorted).data, c.prefix) \o "\n\n" \o exportText(c, Tail(sorted))

\* The texts Export can return.
Exports(c, outs) == {exportText(c, sorted) : sorted \in Sorted(outs, DOMAIN outs)}

\* detectCycle: the names of the stack up to the first frame named `name`.
RECURSIVE cyclePath(_, _)
cyclePath(name, stk) ==
    IF stk = <<>> THEN <<>>
    ELSE IF Head(stk).name = name THEN <<name>>
    ELSE <<Head(stk).name>> \o cyclePath(name, Tail(stk))

\* A detectCycle that finds no cycle.
detectCycleNever(name, stk) == [found |-> FALSE, cycle |-> <<>>]

detectCycle(name, stk) ==
    [found |-> \E i \in 1..Len(stk) : stk[i].name = name,
     cycle |-> cyclePath(name, stk)]

\* The self reference is not recorded in the frame.
markNothing(stk) == stk

\* The self reference is recorded in every frame of the stack.
markSelfRefAll(stk) == [i \in 1..Len(stk) |-> [stk[i] EXCEPT !.selfRef = TRUE]]

\* c.stack[len(c.stack)-1].selfRef = true
markSelfRef(stk) == [stk EXCEPT ![Len(stk)].selfRef = TRUE]

\* The text convertStructTopLevel returns for a record.
topLevelText(c, t, name, selfRef, data) ==
    IF selfRef
    THEN L("export type " \o c.prefix \o name \o " = ") \o getTypeStruct(c, t, 0)
         \o L("\nexport const " \o schemaName(c.prefix, name) \o ": z.ZodType<"
              \o c.prefix \o name \o "> = ") \o data
    ELSE L("export const " \o schemaName(c.prefix, name) \o " = ") \o data
         \o L("\nexport type " \o c.prefix \o name \o " = z.infer<typeof "
              \o schemaName(c.prefix, name) \o ">")

\* The line convertField returns for a field, given the text of its type.
fieldLine(c, f, indent, text) ==
    LET isCustom == getFullName(f.type) \in c.customTypes
    IN  IF ~f.anonymous
        THEN L(indentation(indent) \o fieldName(f) \o ": ") \o text
             \o L((IF isOptional(f) THEN ".optional()" ELSE "")
                  \o (IF isNullable(f) /\ ~isCustom THEN ".nullable()" ELSE "")
                  \o ",\n")
        ELSE L(".merge(") \o text \o L(")")

(***************************************************************************)
(* The call stack                                                           *)
(***************************************************************************)
Frame(fn, t) ==
    [fn |-> fn, t |-> t, validate |-> <<>>, indent |-> 0, pc |-> "enter", i |-> 1,
     out |-> <<>>, merges |-> <<>>, key |-> <<>>, op |-> "", rest |-> <<>>]

TypeFrame(t, validate, indent) ==
    [Frame("ConvertType", t) EXCEPT !.validate = validate, !.indent = indent]

Top == calls[Len(calls)]
Popped == SubSeq(calls, 1, Len(calls) - 1)
\* The top frame becomes `top` and calls `callee`.
Called(top, callee) == Append([calls EXCEPT ![Len(calls)] = top], callee)

Running == status = "running" /\ calls # <<>> /\ Len(calls) <= MaxDepth
At(fn, pc) == Running /\ Top.fn = fn /\ Top.pc = pc

NoPanic == [msg |-> "", names |-> <<>>]

\* A panic unwinds the call stack; nothing is deferred, so the converter's
\* fields stay as they are.
Panic(msg, names) ==
    /\ status' = "panicked"
    /\ panicked' = [msg |-> msg, names |-> names]
    /\ calls' = <<>>
    /\ ret' = <<>>

\* The call returns `text` to its caller.
Return(text) ==
    /\ calls' = Popped
    /\ ret' = text
    /\ UNCHANGED <<status, panicked>>

\* No field is being probed.
NoProbe == [field |-> Field("", "int", <<>>, <<>>), asked |-> {},
            nullable |-> FALSE, optional |-> FALSE, first |-> <<>>]

Init ==
    /\ conf \in Confs
    /\ outputs = NoEntries
    /\ structs = 0
    /\ stack = <<>>
    /\ calls = <<>>
    /\ ret = <<>>
    /\ status = "idle"
    /\ panicked = NoPanic
    /\ exported = [valid |-> FALSE, text |-> ""]
    /\ ncalls = 0
    /\ cur = [t |-> "", outputs |-> NoEntries, structs |-> 0, stack |-> <<>>]
    /\ probe = NoProbe
(***************************************************************************)
(* The API: AddType, Convert, ConvertSlice, Export                          *)
(***************************************************************************)
\* The inputs of the calls of Convert and ConvertSlice that are explored.
ConvertInputs == {"Money", "PtrC"}
SliceInputs == {<<>>, <<"Item", "Parent">>, <<"C", "Wire">>}

\* A caller (who may have recovered from an earlier panic) starts a call.
ApiCall(op, inputs) ==
    /\ status \in {"idle", "panicked"}
    /\ ncalls < MaxCalls
    /\ ncalls' = ncalls + 1
    /\ status' = "running"
    /\ panicked' = NoPanic
    /\ calls' = <<[Frame("api", "") EXCEPT !.op = op, !.rest = inputs]>>
    /\ ret' = <<>>
    /\ UNCHANGED <<probe, conf, outputs, structs, stack, exported, cur>>

AddType == \E t \in Roots : ApiCall("AddType", <<t>>)

Convert == \E t \in ConvertInputs : ApiCall("Convert", <<t>>)

ConvertSlice == \E inputs \in SliceInputs : ApiCall("ConvertSlice", inputs)

\* Export: the entries sorted by order, each followed by an empty line.
Export ==
    /\ status \in {"idle", "panicked"}
    /\ ncalls < MaxCalls
    /\ ncalls' = ncalls + 1
    /\ \E text \in Exports(conf, outputs) :
            exported' = [valid |-> TRUE, text |-> text]
    /\ UNCHANGED <<probe, conf, outputs, structs, stack, calls, ret, status, panicked,
                   cur>>

\* The call has no input left: AddType returns; Convert and ConvertSlice
\* return c.Export().
ApiReturn ==
    /\ At("api", "enter")
    /\ Top.rest = <<>>
    /\ status' = "idle"
    /\ calls' = <<>>
    /\ ret' = <<>>
    /\ IF Top.op = "AddType"
       THEN UNCHANGED exported
       ELSE \E text \in Exports(conf, outputs) :
                exported' = [valid |-> TRUE, text |-> text]
    /\ UNCHANGED <<probe, conf, outputs, structs, stack, panicked, ncalls, cur>>

\* The registry and the stack as AddType finds them.
Before(t) == [t |-> t, outputs |-> outputs, structs |-> structs, stack |-> stack]

\* AddType: `panic("input must be a struct")`.
AddTypeNotStruct ==
    /\ At("api", "enter")
    /\ Top.rest # <<>>
    /\ Kind(Head(Top.rest)) # "struct"
    /\ cur' = Before(Head(Top.rest))
    /\ Panic("input must be a struct", <<>>)
    /\ UNCHANGED <<probe, conf, outputs, structs, stack, exported, ncalls>>

\* AddType without its early return: a known name is converted again.
addTypeAlways(t, outs) == TRUE

\* The test of AddType on c.outputs.
addTypeConverts(t, outs) == typeName(t) \notin DOMAIN outs

\* AddType: the name is in c.outputs already, `return`.
AddTypeKnown ==
    /\ At("api", "enter")
    /\ Top.rest # <<>>
    /\ Kind(Head(Top.rest)) = "struct"
    /\ ~addTypeConverts(Head(Top.rest), outputs)
    /\ cur' = Before(Head(Top.rest))
    /\ calls' = [calls EXCEPT ![Len(calls)].rest = Tail(@)]
    /\ UNCHANGED <<probe, conf, outputs, structs, stack, ret, status, panicked, exported,
                   ncalls>>

\* AddType: `data := c.convertStructTopLevel(t)`.
AddTypeConvert ==
    /\ At("api", "enter")
    /\ Top.rest # <<>>
    /\ Kind(Head(Top.rest)) = "struct"
    /\ addTypeConverts(Head(Top.rest), outputs)
    /\ cur' = Before(Head(Top.rest))
    /\ calls' = Append(Called([Top EXCEPT !.rest = Tail(@)],
                              Frame("AddType", Head(Top.rest))),
                       Frame("convertStructTopLevel", Head(Top.rest)))
    /\ UNCHANGED <<probe, conf, outputs, structs, stack, ret, status, panicked, exported,
                   ncalls>>

\* AddType: `c.outputs[name] = entry{order, data}; c.structs = order + 1`.
AddTypeStore ==
    /\ At("AddType", "enter")
    /\ LET r == addRoot(outputs, structs, typeName(Top.t), ret)
       IN  outputs' = r.outputs /\ structs' = r.structs
    /\ Return(<<>>)
    /\ UNCHANGED <<probe, conf, stack, exported, ncalls, cur>>

(***************************************************************************)
(* convertStructTopLevel and convertStruct                                  *)
(***************************************************************************)
\* `c.stack = append(c.stack, meta{name, false}); data := c.convertStruct(t, 0)`
TopLevelEnter ==
    /\ At("convertStructTopLevel", "enter")
    /\ stack' = Append(stack, [name |-> typeName(Top.t), selfRef |-> FALSE])
    /\ calls' = Called([Top EXCEPT !.pc = "data"], Frame("convertStruct", Top.t))
    /\ UNCHANGED <<probe, conf, outputs, structs, ret, status, panicked, exported, ncalls,
                   cur>>

\* The text is built in the shape the top frame asks for, and the frame is
\* popped.
TopLevelReturn ==
    /\ At("convertStructTopLevel", "data")
    /\ LET top == stack[Len(stack)]
           text == topLevelText(conf, Top.t, typeName(Top.t), top.selfRef, ret)
       IN  IF \E k \in 1..Len(text) : text[k].t = "panic"
           THEN Panic("cannot handle", <<>>) /\ UNCHANGED stack
           ELSE Return(text) /\ stack' = SubSeq(stack, 1, Len(stack) - 1)
    /\ UNCHANGED <<probe, conf, outputs, structs, exported, ncalls, cur>>

\* convertStruct, one field: convertField returns at once for a field named
\* "-", and calls ConvertType for any other.
StructField ==
    /\ At("convertStruct", "enter")
    /\ Top.i <= NumField(Top.t)
    /\ LET f == FieldAt(Top.t, Top.i)
       IN  IF fieldName(f) = "-"
           THEN calls' = [calls EXCEPT ![Len(calls)].i = @ + 1]
           ELSE calls' = Called([Top EXCEPT !.pc = "field"],
                                TypeFrame(f.type, f.validate, Top.indent + 1))
    /\ UNCHANGED <<probe, conf, outputs, structs, stack, ret, status, panicked, exported,
                   ncalls, cur>>

\* convertField has the text of the field's type: the line is written, or
\* kept as a merge for an embedded field.
StructFieldReturn ==
    /\ At("convertStruct", "field")
    /\ LET f == FieldAt(Top.t, Top.i)
           line == fieldLine(conf, f, Top.indent + 1, ret)
       IN  calls' = [calls EXCEPT ![Len(calls)] =
                        [Top EXCEPT !.pc = "enter", !.i = @ + 1,
                                    !.out = IF f.anonymous THEN @ ELSE @ \o line,
                                    !.merges = IF f.anonymous THEN @ \o line ELSE @]]
    /\ ret' = <<>>
    /\ UNCHANGED <<probe, conf, outputs, structs, stack, status, panicked, exported, ncalls,
                   cur>>

\* convertStruct returns the object with its merges.
StructReturn ==
    /\ At("convertStruct", "enter")
    /\ Top.i > NumField(Top.t)
    /\ Return(L("z.object({\n") \o Top.out \o L(indentation(Top.indent) \o "})")
              \o Top.merges)
    /\ UNCHANGED <<probe, conf, outputs, structs, stack, exported, ncalls, cur>>
(***************************************************************************)
(* ConvertType                                                              *)
(***************************************************************************)
\* A converter that never looks a type up in its custom types.
IsCustomNever(t) == FALSE

IsCustom(t) == getFullName(t) \in conf.customTypes

\* A pointer: ConvertType of the element, "omitempty" and one "," trimmed
\* from the front of the tag.
ConvertTypePtr ==
    /\ At("ConvertType", "enter")
    /\ Kind(Top.t) = "ptr"
    /\ calls' = Called([Top EXCEPT !.pc = "ptr"],
                       TypeFrame(Elem(Top.t),
                                 TrimPrefix(TrimPrefix(Top.validate, sOmitEmpty), sComma),
                                 Top.indent))
    /\ UNCHANGED <<probe, conf, outputs, structs, stack, ret, status, panicked, exported,
                   ncalls, cur>>

ConvertTypePtrReturn ==
    /\ At("ConvertType", "ptr")
    /\ Return(ret)
    /\ UNCHANGED <<probe, conf, outputs, structs, stack, exported, ncalls, cur>>

\* handleCustomType: the handler registered for the full name of the type.
ConvertTypeCustom ==
    /\ At("ConvertType", "enter")
    /\ Kind(Top.t) # "ptr"
    /\ IsCustom(Top.t)
    /\ Return(customFn(getFullName(Top.t)))
    /\ UNCHANGED <<probe, conf, outputs, structs, stack, exported, ncalls, cur>>

\* convertSliceAndArray: the current zone of the tag is compiled, then the
\* element is converted with what follows "dive".
ConvertTypeSlice ==
    /\ At("ConvertType", "enter")
    /\ Kind(Top.t) \in {"slice", "array"}
    /\ ~IsCustom(Top.t)
    /\ LET isArray == Kind(Top.t) = "array"
           acc == convertSliceLoop(conf, NoTags,
                                   Split(getValidateCurrent(Top.validate), sComma),
                                   isArray)
           length == IF isArray
                     THEN L(".length(" \o ToString(TypeTable[Top.t].len) \o ")")
                     ELSE <<>>
       IN  IF acc.panic
           THEN Panic(acc.msg, <<>>)
           ELSE /\ calls' = Called([Top EXCEPT !.pc = "elem",
                                               !.out = acc.app \o length \o acc.refines],
                                   TypeFrame(Elem(Top.t),
                                             getValidateAfterDive(Top.validate),
                                             Top.indent))
                /\ UNCHANGED <<ret, status, panicked>>
    /\ UNCHANGED <<probe, conf, outputs, structs, stack, exported, ncalls, cur>>

ConvertTypeSliceReturn ==
    /\ At("ConvertType", "elem")
    /\ Return(ret \o L(".array()") \o Top.out)
    /\ UNCHANGED <<probe, conf, outputs, structs, stack, exported, ncalls, cur>>

\* convertMap: the tag is compiled up to "dive", then the key type, then the
\* element with the value zone of the tag.
ConvertTypeMap ==
    /\ At("ConvertType", "enter")
    /\ Kind(Top.t) = "map"
    /\ ~IsCustom(Top.t)
    /\ LET acc == convertMapLoop(conf, NoTags, Split(Top.validate, sComma))
           key == convertKeyType(conf, Key(Top.t), getValidateKeys(Top.validate))
           values == getValidateValues(Top.validate)
       IN  IF acc.panic THEN Panic(acc.msg, <<>>)
           ELSE IF key.panic THEN Panic(key.msg, <<>>)
           ELSE IF values.panic THEN Panic("index out of range", <<>>)
           ELSE /\ calls' = Called([Top EXCEPT !.pc = "value", !.key = key.text,
                                               !.out = acc.app \o acc.refines],
                                   TypeFrame(Elem(Top.t), values.v, Top.indent))
                /\ UNCHANGED <<ret, status, panicked>>
    /\ UNCHANGED <<probe, conf, outputs, structs, stack, exported, ncalls, cur>>

ConvertTypeMapReturn ==
    /\ At("ConvertType", "value")
    /\ Return(L("z.record(") \o Top.key \o L(", ") \o ret \o L(")") \o Top.out)
    /\ UNCHANGED <<probe, conf, outputs, structs, stack, exported, ncalls, cur>>

\* The end of the struct branch of ConvertType: the parts of the tag are
\* compiled after `text`, the refines last.
StructTagsReturn(text, name) ==
    LET acc == convertStructLoop(conf, NoTags, Split(Top.validate, sComma), name)
    IN  IF acc.panic THEN Panic(acc.msg, <<>>)
        ELSE Return(text \o acc.app \o acc.refines)

IsStruct == At("ConvertType", "enter") /\ Kind(Top.t) = "struct" /\ ~IsCustom(Top.t)

\* A struct type with no name is converted in place.
ConvertTypeInline ==
    /\ IsStruct
    /\ typeName(Top.t) = ""
    /\ calls' = Called([Top EXCEPT !.pc = "inline"],
                       [Frame("convertStruct", Top.t) EXCEPT !.indent = Top.indent])
    /\ UNCHANGED <<probe, conf, outputs, structs, stack, ret, status, panicked, exported,
                   ncalls, cur>>

ConvertTypeInlineReturn ==
    /\ At("ConvertType", "inline")
    /\ StructTagsReturn(ret, "")
    /\ UNCHANGED <<probe, conf, outputs, structs, stack, exported, ncalls, cur>>

ConvertTypeTime ==
    /\ IsStruct
    /\ typeName(Top.t) = "Time"
    /\ StructTagsReturn(L("z.coerce.date()"), "Time")
    /\ UNCHANGED <<probe, conf, outputs, structs, stack, exported, ncalls, cur>>

IsNamed == IsStruct /\ typeName(Top.t) \notin {"", "Time"}

\* The record on top of the stack refers to itself: its frame is marked and
\* a lazy reference is written.
ConvertTypeSelfRef ==
    /\ IsNamed
    /\ stack # <<>>
    /\ stack[Len(stack)].name = typeName(Top.t)
    /\ stack' = markSelfRef(stack)
    /\ StructTagsReturn(LazyTok(typeName(Top.t)), typeName(Top.t))
    /\ UNCHANGED <<probe, conf, outputs, structs, exported, ncalls, cur>>

\* detectCycle panics: the name is in the stack, below the top.
ConvertTypeCycle ==
    /\ IsNamed
    /\ stack # <<>>
    /\ stack[Len(stack)].name # typeName(Top.t)
    /\ detectCycle(typeName(Top.t), stack).found
    /\ Panic("circular dependency detected", detectCycle(typeName(Top.t), stack).cycle)
    /\ UNCHANGED <<probe, conf, outputs, structs, stack, exported, ncalls, cur>>

\* Another record: `c.convertStructTopLevel(t)`.
ConvertTypeNamed ==
    /\ IsNamed
    /\ stack # <<>>
    /\ stack[Len(stack)].name # typeName(Top.t)
    /\ ~detectCycle(typeName(Top.t), stack).found
    /\ calls' = Called([Top EXCEPT !.pc = "named"],
                       Frame("convertStructTopLevel", Top.t))
    /\ UNCHANGED <<probe, conf, outputs, structs, stack, ret, status, panicked, exported,
                   ncalls, cur>>

\* `c.addSchema(name, ...)` and the name of the schema is written.
ConvertTypeNamedReturn ==
    /\ At("ConvertType", "named")
    /\ LET r == addSchema(outputs, structs, typeName(Top.t), ret)
       IN  outputs' = r.outputs /\ structs' = r.structs
    /\ StructTagsReturn(RefTok(typeName(Top.t)), typeName(Top.t))
    /\ UNCHANGED <<probe, conf, stack, exported, ncalls, cur>>

\* boolean, number, string, any; any other kind panics.
ConvertTypeScalar ==
    /\ At("ConvertType", "enter")
    /\ Kind(Top.t) \notin {"ptr", "slice", "array", "map", "struct"}
    /\ ~IsCustom(Top.t)
    /\ LET r == convertScalar(conf, Top.t, Top.validate)
       IN  IF r.panic THEN Panic(r.msg, <<>>) ELSE Return(r.text)
    /\ UNCHANGED <<probe, conf, outputs, structs, stack, exported, ncalls, cur>>

\* The recursion has used up the stack of the goroutine: the Go runtime
\* ends the process ("stack overflow"); no caller can recover from it.
StackOverflow ==
    /\ status = "running"
    /\ Len(calls) > MaxDepth
    /\ status' = "overflow"
    /\ UNCHANGED <<probe, conf, outputs, structs, stack, calls, ret, panicked, exported,
                   ncalls, cur>>

Next ==
    \/ AddType \/ Convert \/ ConvertSlice \/ Export
    \/ ApiReturn \/ AddTypeNotStruct \/ AddTypeKnown \/ AddTypeConvert \/ AddTypeStore
    \/ TopLevelEnter \/ TopLevelReturn
    \/ StructField \/ StructFieldReturn \/ StructReturn
    \/ ConvertTypePtr \/ ConvertTypePtrReturn \/ ConvertTypeCustom
    \/ ConvertTypeSlice \/ ConvertTypeSliceReturn
    \/ ConvertTypeMap \/ ConvertTypeMapReturn
    \/ ConvertTypeInline \/ ConvertTypeInlineReturn \/ ConvertTypeTime
    \/ ConvertTypeSelfRef \/ ConvertTypeCycle
    \/ ConvertTypeNamed \/ ConvertTypeNamedReturn
    \/ ConvertTypeScalar
    \/ StackOverflow

Spec == Init /\ [][Next]_vars

(***************************************************************************)
(* isNullable and isOptional on their own: a field is drawn from the types, *)
(* validate tags and json tags below, and each function is applied to it.   *)
(***************************************************************************)
ProbeTypes == {"string", "int", "bool", "any", "C", "Time", "InlTree", "ArrInt",
               "PtrInt", "PtrC", "PtrAny", "PtrPtrAny", "PtrPtrInt",
               "PtrSliceString", "PtrMapStringInt", "SliceString", "MapStringInt",
               "SlicePtrItem", "MapTree"}

ProbeValidates == {
    <<>>,
    sRequired,
    sOmitEmpty,
    <<"m", "i", "n", "=", "1">>,
    <<"o", "m", "i", "t", "e", "m", "p", "t", "y", ",", "m", "i", "n", "=", "1">>,
    <<"d", "i", "v", "e", ",", "r", "e", "q", "u", "i", "r", "e", "d">>,
    <<"d", "i", "v", "e", ",", "m", "i", "n", "=", "1">>,
    <<"m", "i", "n", "=", "1", ",", "d", "i", "v", "e", ",", "r", "e", "q", "u", "i",
      "r", "e", "d">>,
    <<"o", "m", "i", "t", "e", "m", "p", "t", "y", ",", "d", "i", "v", "e", ",", "m",
      "a", "x", "=", "2">>,
    <<"r", "e", "q", "u", "i", "r", "e", "d", ",", "d", "i", "v", "e", ",", "o", "m",
      "i", "t", "e", "m", "p", "t", "y">>
}

ProbeJsons == {
    <<>>,
    <<"f">>,
    <<"f", ",", "o", "m", "i", "t", "e", "m", "p", "t", "y">>,
    <<",", "o", "m", "i", "t", "z", "e", "r", "o">>,
    <<"f", ",", "s", "t", "r", "i", "n", "g">>
}

ProbeFields ==
    {Field("F", t, j, v) : t \in ProbeTypes, j \in ProbeJsons, v \in ProbeValidates}

InitProbe ==
    /\ conf \in Confs
    /\ outputs = NoEntries
    /\ structs = 0
    /\ stack = <<>>
    /\ calls = <<>>
    /\ ret = <<>>
    /\ status = "idle"
    /\ panicked = NoPanic
    /\ exported = [valid |-> FALSE, text |-> ""]
    /\ ncalls = 0
    /\ cur = [t |-> "", outputs |-> NoEntries, structs |-> 0, stack |-> <<>>]
    /\ probe \in {[NoProbe EXCEPT !.field = f] : f \in ProbeFields}

\* nullable := isNullable(field)
AskNullable ==
    /\ "isNullable" \notin probe.asked
    /\ probe' = [probe EXCEPT !.asked = @ \cup {"isNullable"},
                              !.nullable = isNullable(probe.field)]
    /\ UNCHANGED <<conf, outputs, structs, stack, calls, ret, status, panicked,
                   exported, ncalls, cur>>

\* optional := isOptional(field)
AskOptional ==
    /\ "isOptional" \notin probe.asked
    /\ probe' = [probe EXCEPT !.asked = @ \cup {"isOptional"},
                              !.optional = isOptional(probe.field)]
    /\ UNCHANGED <<conf, outputs, structs, stack, calls, ret, status, panicked,
                   exported, ncalls, cur>>

NextProbe == AskNullable \/ AskOptional

SpecProbe == InitProbe /\ [][NextProbe]_vars

(***************************************************************************)
(* Properties                                                               *)
(***************************************************************************)
Range(seq) == {seq[i] : i \in 1..Len(seq)}

\* The names a text refers to directly, and through z.lazy.
Refs(data) == {tok.v : tok \in {x \in Range(data) : x.t = "ref"}}
Lazies(data) == {tok.v : tok \in {x \in Range(data) : x.t = "lazy"}}

\* The place of the entry of `name` in a sorted sequence of the entries.
Pos(sorted, name) == CHOOSE i \in 1..Len(sorted) : sorted[i] = outputs[name]

\* Export writes the entry of `m` before the entry of `n`.
EmittedBefore(m, n) ==
    \A sorted \in Sorted(outputs, DOMAIN outputs) : Pos(sorted, m) < Pos(sorted, n)

\* C1: AddType of a record whose name is in the registry already, as a root
\* or as a nested record, leaves the registry (its entries, their insertion
\* indices and texts) and the counter as they were before the call.
C1_Idempotent ==
    (cur.t # "" /\ Kind(cur.t) = "struct" /\ typeName(cur.t) \in DOMAIN cur.outputs)
        => (outputs = cur.outputs /\ structs = cur.structs)

\* AddType(C) has returned on a converter where C was registered as a nested
\* record of Whim.
C1_Witness ==
    /\ status = "idle"
    /\ cur.t = "C"
    /\ {"C", "Whim"} \subseteq DOMAIN cur.outputs
    /\ ncalls = 2

\* x, the root of the last AddType, refers to y, and y to z; none of them was
\* registered before the call.
Chain3(x, y, z) ==
    /\ x # y /\ y # z /\ x # z
    /\ cur.t # "" /\ Kind(cur.t) = "struct" /\ typeName(cur.t) = x
    /\ {x, y, z} \subseteq DOMAIN outputs
    /\ {x, y, z} \cap DOMAIN cur.outputs = {}
    /\ y \in Refs(outputs[x].data)
    /\ z \in Refs(outputs[y].data)

\* C2 as the specification states it: for A referring to B referring to C,
\* none registered before AddType(A), index(A) < index(B) < index(C).
C2_RootFirst ==
    \A x, y, z \in DOMAIN outputs :
        Chain3(x, y, z) =>
            /\ outputs[x].order < outputs[y].order
            /\ outputs[y].order < outputs[z].order

\* C2: for A referring to B referring to C, none registered before
\* AddType(A), the indices are index(C) < index(B) < index(A), and Export
\* writes C, then B, then A.
C2_NestedFirst ==
    \A x, y, z \in DOMAIN outputs :
        Chain3(x, y, z) =>
            /\ outputs[z].order < outputs[y].order
            /\ outputs[y].order < outputs[x].order
            /\ EmittedBefore(z, y)
            /\ EmittedBefore(y, x)

\* AddType(A) has returned on a converter that knew none of A, B and C.
C2_Witness == status = "idle" /\ Chain3("A", "B", "C")

RECURSIVE Reaches(_, _, _)
Reaches(u, name, fuel) ==
    IF fuel = 0 THEN FALSE
    ELSE CASE Kind(u) \in {"ptr", "slice", "array", "map"} ->
                Reaches(Elem(u), name, fuel - 1)
           [] Kind(u) = "struct" ->
                IF TypeTable[u].name = <<>>
                THEN \E i \in 1..NumField(u) : Reaches(FieldAt(u, i).type, name, fuel - 1)
                ELSE typeName(u) = name
           [] OTHER -> FALSE

\* A record with a field whose type reaches the record itself.
SelfReferential(t) ==
    /\ Kind(t) = "struct"
    /\ typeName(t) # ""
    /\ \E i \in 1..NumField(t) :
            Reaches(FieldAt(t, i).type, typeName(t), Cardinality(TypeIds))

Lit(s) == [t |-> "lit", v |-> s]

\* The self-referential shape: an explicit type alias, then the schema
\* annotated with it.
SelfRefShape(c, name, data) ==
    /\ data # <<>>
    /\ data[1] = Lit("export type " \o c.prefix \o name \o " = ")
    /\ Lit("\nexport const " \o schemaName(c.prefix, name) \o ": z.ZodType<"
           \o c.prefix \o name \o "> = ") \in Range(data)

\* C4: a record that reaches itself through pointers, slices, arrays, map
\* values or inline records is converted without a panic and without a second
\* conversion of the record inside its own; its text has the
\* self-referential shape and refers to the record only through z.lazy.
C4_SelfReference ==
    /\ \A t \in TypeIds :
            (SelfReferential(t) /\ typeName(t) \in DOMAIN outputs) =>
                LET data == outputs[typeName(t)].data
                IN  /\ SelfRefShape(conf, typeName(t), data)
                    /\ typeName(t) \in Lazies(data)
                    /\ typeName(t) \notin Refs(data)
    /\ (cur.t # "" /\ SelfReferential(cur.t)) => status \notin {"panicked", "overflow"}
    /\ \A i, j \in 1..Len(calls) :
            (/\ i < j
             /\ calls[i].fn = "convertStructTopLevel"
             /\ calls[j].fn = "convertStructTopLevel")
                => typeName(calls[i].t) # typeName(calls[j].t)

\* Node (through a pointer) and Tree (through a map value, an array of
\* pointers and an inline record) are registered.
C4_Witness ==
    /\ status = "idle"
    /\ {"Node", "Tree"} \subseteq DOMAIN outputs
    /\ SelfReferential("Node") /\ SelfReferential("Tree")
    /\ cur.t = "Tree"

\* C5: AddType(CycA), where CycA points to CycB and CycB to CycA, panics
\* with a cycle message that names both CycA and CycB.
C5_CycleNamesBoth ==
    (/\ status = "panicked"
     /\ cur.t = "CycA"
     /\ panicked.msg = "circular dependency detected")
        => {"CycA", "CycB"} \subseteq Range(panicked.names)

\* C6: no AddType recurses without bound: the call stack of a conversion
\* never grows until the Go runtime's stack is exhausted.
C6_NoUnboundedRecursion == status # "overflow"

\* C7: when AddType panics, the registry and the counter are as they were
\* before the call.
C7_AllOrNothing ==
    status = "panicked" => (outputs = cur.outputs /\ structs = cur.structs)

\* C8: the insertion indices of the registry are distinct and below the
\* counter, and no step removes or changes an entry of the registry.
C8_WriteOnce ==
    /\ [](\A n, m \in DOMAIN outputs :
            /\ outputs[n].order < structs
            /\ (n # m => outputs[n].order # outputs[m].order))
    /\ [][\A n \in DOMAIN outputs :
            n \in DOMAIN outputs' /\ outputs'[n] = outputs[n]]_vars

\* Dup, whose field is the record C of another package, has been converted
\* on a converter where the name C was registered already.
C8_Witness ==
    /\ status = "idle"
    /\ cur.t = "Dup"
    /\ "C" \in DOMAIN cur.outputs
    /\ "Dup" \in DOMAIN outputs
    /\ outputs["C"] = cur.outputs["C"]

\* C9: Export has one possible result, whatever order the registry is
\* iterated in and whatever sort.Sort does with entries it finds equal.
C9_Deterministic == Cardinality(Exports(conf, outputs)) = 1

\* Export has returned the text of a registry of three entries or more.
C9_Witness ==
    /\ exported.valid
    /\ Cardinality(DOMAIN outputs) >= 3
    /\ exported.text \in Exports(conf, outputs)

\* The current zone of a validate tag: its tokens before the first "dive".
ZoneTokens(validate) ==
    LET parts == Split(validate, sComma)
        dives == {i \in 1..Len(parts) : parts[i] = sDive}
    IN  IF dives = {} THEN parts ELSE SubSeq(parts, 1, Min(dives) - 1)

ZoneHas(field, word) ==
    \E tok \in Range(ZoneTokens(field.validate)) : Contains(tok, word)

\* Omit-on-zero: an option of the json tag, after the name, is omitempty or
\* omitzero.
OmitOnZero(field) ==
    \E opt \in Range(Tail(Split(field.json, sComma))) : opt \in {sOmitEmpty, sOmitZero}

\* The type is any-typed once its pointers, if any, are followed.
RECURSIVE AnyBehindPointers(_)
AnyBehindPointers(t) ==
    \/ Kind(t) = "interface"
    \/ Kind(t) = "ptr" /\ AnyBehindPointers(Elem(t))

\* The decision table of nullability, first match wins; `anyTyped` is what
\* the first row takes for "the field is any-typed".
NullableTable(field, anyTyped) ==
    LET kind == Kind(field.type)
    IN  IF kind = "struct" \/ anyTyped \/ ZoneHas(field, sRequired) THEN FALSE
        ELSE IF ZoneHas(field, sEq) /\ ~ZoneHas(field, sOmitEmpty) THEN FALSE
        ELSE IF kind = "ptr"
        THEN (IF OmitOnZero(field)
              THEN Kind(Elem(field.type)) \in {"ptr", "slice", "map"}
              ELSE TRUE)
        ELSE IF kind \in {"slice", "map"} THEN ~OmitOnZero(field)
        ELSE FALSE

\* C10 as the specification states it: isNullable is the decision table,
\* with a pointer field handled by the pointer row whatever it points to.
C10_TableByKind ==
    "isNullable" \in probe.asked =>
        probe.nullable = NullableTable(probe.field, Kind(probe.field.type) = "interface")

\* C10: isNullable is the decision table, where a field is any-typed also
\* when it is a pointer, or a chain of pointers, to an any-typed value.
C10_Table ==
    "isNullable" \in probe.asked =>
        probe.nullable = NullableTable(probe.field, AnyBehindPointers(probe.field.type))

\* isNullable has answered for a pointer to an any-typed value with no tags,
\* and for nothing else on this field.
C10_Witness ==
    /\ probe.asked = {"isNullable"}
    /\ probe.field.type = "PtrAny"
    /\ probe.field.validate = <<>>
    /\ probe.field.json = <<>>
    /\ ~probe.nullable

\* The rule of optionality; `anyTyped` is what it takes for "the field is
\* any-typed".
OptionalTable(field, anyTyped) ==
    /\ OmitOnZero(field)
    /\ Kind(field.type) # "struct"
    /\ ~anyTyped
    /\ ~ZoneHas(field, sRequired)
    /\ ~(ZoneHas(field, sEq) /\ ~ZoneHas(field, sOmitEmpty))

\* C11 as the specification states it: isOptional is the rule, with a
\* pointer field any-typed only when the field itself is.
C11_RuleByKind ==
    "isOptional" \in probe.asked =>
        probe.optional = OptionalTable(probe.field, Kind(probe.field.type) = "interface")

\* C11: a field is optional exactly when it is marked omit-on-zero and it is
\* not a record, not any-typed (directly or behind a chain of pointers), its
\* current zone has no required and no '='-bearing token without omitempty.
C11_Rule ==
    "isOptional" \in probe.asked =>
        probe.optional = OptionalTable(probe.field, AnyBehindPointers(probe.field.type))

\* isOptional has answered for a pointer to an any-typed value that is
\* marked omitempty.
C11_Witness ==
    /\ "isOptional" \in probe.asked
    /\ probe.field.type = "PtrAny"
    /\ probe.field.validate = <<>>
    /\ OmitOnZero(probe.field)
    /\ ~probe.optional

(***************************************************************************)
(* convertField on its own: the converter is inside the conversion of a    *)
(* record Host and reaches a field F of Host, whose type and validate tag  *)
(* are drawn from the sets below; ConvertType runs on it and convertField  *)
(* writes the line.                                                         *)
(***************************************************************************)
\* The largest N of the tokens gt=N, gte=N, lt=N and lte=N.
MaxN == 1

\* strconv.Itoa of a natural number.
RECURSIVE Itoa(_)
Itoa(n) == IF n < 10 THEN <<Digits[n + 1]>> ELSE Itoa(n \div 10) \o <<Digits[(n % 10) + 1]>>

\* Options with an ignore-list and custom tag handlers (WithIgnoreTags,
\* WithCustomTags): "even" returns a refinement, "trim" a method call.
TaggedConf ==
    [prefix |-> "", customTypes |-> {DecimalType, OptionalType},
     customTags |-> [n \in {"even", "trim"} |->
                        IF n = "even" THEN <<".", "r", "e", "f", "i", "n", "e", "(", "(", "v", "a", "l", ")", " ", "=", ">", " ", "v", "a", "l", " ", "%", " ", "2", " ", "=", "=", "=", " ", "0", ")">> ELSE <<".", "t", "r", "i", "m", "(", ")">>],
     ignoreTags |-> {"skipme"}]

FieldConfs == {[prefix |-> "", customTypes |-> {}, customTags |-> <<>>,
                ignoreTags |-> {}],
               TaggedConf}

\* The types of the field F.
HostTypes == {"string", "int", "bool", "any", "Time", "C", "InlTree", "PtrNode",
              "SliceString", "ArrInt", "MapStringInt", "PtrInt", "Decimal",
              "PtrDecimal", "Optional", "PtrOptional"}

\* The tokens of the validate tag of F.
HostTokens ==
    {<<"r", "e", "q", "u", "i", "r", "e", "d">>, <<"o", "m", "i", "t", "e", "m", "p", "t", "y">>, <<"b", "a", "d", "=", "1">>, <<"s", "k", "i", "p", "m", "e">>, <<"s", "k", "i", "p", "m", "e", "=", "3">>, <<"e", "v", "e", "n">>, <<"t", "r", "i", "m">>,
     <<"n", "e", "=", "1">>, <<"e", "q", "=", "2">>, <<"m", "i", "n", "=", "1">>, <<"m", "a", "x", "=", "5">>}
    \cup {<<"g", "t", "=">> \o Itoa(n) : n \in 0..MaxN}
    \cup {<<"l", "t", "=">> \o Itoa(n) : n \in 0..MaxN}
    \cup {<<"g", "t", "e", "=">> \o Itoa(n) : n \in 0..MaxN}
    \cup {<<"l", "t", "e", "=">> \o Itoa(n) : n \in 0..MaxN}

\* The validate tags of F: at most two tokens.
HostValidates ==
    {<<>>} \cup HostTokens \cup {a \o sComma \o b : a, b \in HostTokens}

InitField ==
    /\ conf \in FieldConfs
    /\ outputs = NoEntries
    /\ structs = 0
    /\ stack = <<[name |-> "Host", selfRef |-> FALSE]>>
    /\ \E t \in HostTypes, v \in HostValidates :
            /\ probe = [NoProbe EXCEPT !.field = Field("F", t, <<>>, v)]
            /\ calls = <<TypeFrame(t, v, 1)>>
    /\ ret = <<>>
    /\ status = "running"
    /\ panicked = NoPanic
    /\ exported = [valid |-> FALSE, text |-> ""]
    /\ ncalls = 0
    /\ cur = [t |-> "", outputs |-> NoEntries, structs |-> 0, stack |-> <<>>]

\* ConvertType has returned the text of the type of F: convertField returns
\* the line of F.
FieldReturn ==
    /\ status = "running"
    /\ calls = <<>>
    /\ "convertField" \notin probe.asked
    /\ probe' = [probe EXCEPT !.asked = @ \cup {"convertField"}]
    /\ ret' = fieldLine(conf, probe.field, 1, ret)
    /\ UNCHANGED <<conf, outputs, structs, stack, calls, status, panicked, exported,
                   ncalls, cur>>

\* The name of a part of a validate tag: what is before its "=".
PartName(part) == IF Index(part, sEq) = -1 THEN part ELSE Slice(part, 0, Index(part, sEq))

\* The validate tag without its parts that are on the ignore-list.
WithoutIgnored(c, validate) ==
    Join(SelectSeq(Split(validate, sComma),
                   LAMBDA part : ~checkIsIgnored(c, PartName(part))),
         sComma)

\* The line of F is written and its tag has directives of the ignore-list:
\* the converter goes on to a field of the same name and type whose tag is
\* without them; the first line is kept to compare.
FieldWithoutIgnored ==
    /\ status = "running"
    /\ calls = <<>>
    /\ probe.asked = {"convertField"}
    /\ WithoutIgnored(conf, probe.field.validate) # probe.field.validate
    /\ probe' = [probe EXCEPT !.asked = {"ignored removed"},
                              !.first = ret,
                              !.field.validate = WithoutIgnored(conf, @)]
    /\ calls' = <<TypeFrame(probe.field.type,
                            WithoutIgnored(conf, probe.field.validate), 1)>>
    /\ ret' = <<>>
    /\ UNCHANGED <<conf, outputs, structs, stack, status, panicked, exported, ncalls,
                   cur>>

NextField ==
    \/ TopLevelEnter \/ TopLevelReturn
    \/ StructField \/ StructFieldReturn \/ StructReturn
    \/ ConvertTypePtr \/ ConvertTypePtrReturn \/ ConvertTypeCustom
    \/ ConvertTypeSlice \/ ConvertTypeSliceReturn
    \/ ConvertTypeMap \/ ConvertTypeMapReturn
    \/ ConvertTypeInline \/ ConvertTypeInlineReturn \/ ConvertTypeTime
    \/ ConvertTypeSelfRef
    \/ ConvertTypeNamed \/ ConvertTypeNamedReturn
    \/ ConvertTypeScalar
    \/ FieldReturn
    \/ FieldWithoutIgnored

SpecField == InitField /\ [][NextField]_vars

(***************************************************************************)
(* Properties of the line of one field                                      *)
(***************************************************************************)
\* The host kind of a type: what handles it once its pointers are followed.
RECURSIVE HostKind(_)
HostKind(t) ==
    IF IsCustom(t) THEN "custom"
    ELSE IF Kind(t) = "ptr" THEN HostKind(Elem(t))
    ELSE CASE Kind(t) = "int" -> "number"
           [] Kind(t) = "bool" -> "boolean"
           [] Kind(t) = "interface" -> "any"
           [] Kind(t) = "struct" -> "record"
           [] OTHER -> Kind(t)

\* The tokens of the validate tag of the field.
FieldTokens == Range(Split(probe.field.validate, sComma))

\* Directives no host recognizes, unless the options ignore or handle them.
UnknownTokens ==
    {<<"b", "a", "d", "=", "1">>}
    \cup {tok \in {<<"s", "k", "i", "p", "m", "e">>, <<"s", "k", "i", "p", "m", "e", "=", "3">>} : ~checkIsIgnored(conf, <<"s", "k", "i", "p", "m", "e">>)}
    \cup {tok \in {<<"e", "v", "e", "n">>, <<"t", "r", "i", "m">>} : Str(tok) \notin DOMAIN conf.customTags}

\* convertField has returned the line of the field.
FieldDone == "convertField" \in probe.asked

\* C12 as the specification states it: on every host kind, boolean and any
\* included, the line of a field with an unknown directive is never written.
C12_AbortsEveryHost ==
    (FieldDone /\ HostKind(probe.field.type) \in
        {"string", "number", "boolean", "any", "record", "slice", "array", "map"})
    => FieldTokens \cap UnknownTokens = {}

\* C12: on the hosts string, number, record, slice, array and map the line
\* of a field with a directive that is neither recognized, nor ignored, nor
\* handled by a custom tag is never written: the conversion has panicked.
\* (A boolean or any host does not look at the validate tag.)
C12_UnknownAborts ==
    (HostKind(probe.field.type) \in {"string", "number", "record", "slice", "array", "map"}
     /\ FieldTokens \cap UnknownTokens # {})
    => /\ ~FieldDone
       /\ calls = <<>> => status = "panicked"

\* The conversion of a string field with the directive bad=1 has panicked
\* although the options have an ignore-list and custom tags.
C12_Witness ==
    /\ status = "panicked"
    /\ conf = TaggedConf
    /\ HostKind(probe.field.type) = "string"
    /\ <<"b", "a", "d", "=", "1">> \in FieldTokens

\* The text of the line of the field holds `part`.
LineHas(part) == Index(ret, part) # -1

\* The suffix .min(n) or .max(n) of a length-bearing host.
Bound(method, n) == L("." \o method \o "(") \o L(ToString(n)) \o L(")")

\* What C13 says of the directive `name`=N: the method and its argument.
LengthBound(name, n) ==
    CASE name = <<"g", "t">> -> Bound("min", n + 1)
      [] name = <<"l", "t">> -> Bound("max", n - 1)
      [] name \in {<<"g", "t", "e">>, <<"m", "i", "n">>} -> Bound("min", n)
      [] name \in {<<"l", "t", "e">>, <<"m", "a", "x">>} -> Bound("max", n)

\* C13 for the hosts `kinds` and the values `ns` of N (a set that depends on
\* the host and the directive): the field whose validate tag is the directive
\* alone is converted, and its line holds the bound.
LengthBoundsOn(kinds, ns(_, _)) ==
    \A name \in {<<"g", "t">>, <<"l", "t">>, <<"g", "t", "e">>, <<"l", "t", "e">>} :
        \A n \in ns(HostKind(probe.field.type), name) :
            (/\ HostKind(probe.field.type) \in kinds
             /\ probe.field.validate = name \o sEq \o Itoa(n)
             /\ calls = <<>>)
            => /\ status # "panicked"
               /\ FieldDone => LineHas(LengthBound(name, n))

EveryN(kind, name) == 0..MaxN

\* C13: on a string, slice or array host and for every N >= 0, gt=N is
\* written as a minimum of N+1, lt=N as a maximum of N-1, gte=N as a
\* minimum of N and lte=N as a maximum of N.
C13_LengthBounds == LengthBoundsOn({"string", "slice", "array"}, EveryN)

\* Where the code does as C13 says: string hosts, and slice hosts but for
\* lt=0.
PositiveLt(kind, name) == IF kind = "slice" /\ name = <<"l", "t">> THEN 1..MaxN ELSE 0..MaxN

C13_StringAndSlice == LengthBoundsOn({"string", "slice"}, PositiveLt)

(***************************************************************************)
(* The zones of a validate tag: getValidateCurrent, getValidateKeys and     *)
(* getValidateValues applied to tags of the form C,dive,keys,K,endkeys,V    *)
(* and C,dive,V.                                                            *)
(***************************************************************************)
\* The largest number of tokens of C, of K and of V.
MaxZone == 2

ZoneWords == {<<"m", "i", "n", "=", "3">>, <<"m", "a", "x", "=", "4">>}

RECURSIVE ZoneListsOf(_)
ZoneListsOf(n) ==
    IF n = 0 THEN {<<>>}
    ELSE ZoneListsOf(n - 1) \cup
         {Append(l, w) : l \in {x \in ZoneListsOf(n - 1) : Len(x) = n - 1}, w \in ZoneWords}

ZoneLists == ZoneListsOf(MaxZone)

\* The tag of the lists C, K and V, with or without the keys marker.
ZoneTag(c, k, v, keyed) ==
    Join(c \o <<sDive>> \o (IF keyed THEN <<sKeys>> \o k \o <<<<"e", "n", "d", "k", "e", "y", "s">>>> ELSE <<>>) \o v,
         sComma)

InitZones ==
    /\ conf \in Confs
    /\ outputs = NoEntries
    /\ structs = 0
    /\ stack = <<>>
    /\ calls = <<>>
    /\ ret = <<>>
    /\ status = "idle"
    /\ panicked = NoPanic
    /\ exported = [valid |-> FALSE, text |-> ""]
    /\ ncalls = 0
    /\ cur = [t |-> "", outputs |-> NoEntries, structs |-> 0, stack |-> <<>>]
    /\ \E c, k, v \in ZoneLists, keyed \in BOOLEAN :
            /\ keyed \/ k = <<>>
            /\ probe = [c |-> c, k |-> k, v |-> v, keyed |-> keyed,
                        validate |-> ZoneTag(c, k, v, keyed), asked |-> {},
                        current |-> <<>>, keys |-> <<>>, values |-> <<>>,
                        panic |-> FALSE]

\* current := getValidateCurrent(validate)
AskCurrent ==
    /\ "getValidateCurrent" \notin probe.asked
    /\ probe' = [probe EXCEPT !.asked = @ \cup {"getValidateCurrent"},
                              !.current = getValidateCurrent(probe.validate)]
    /\ UNCHANGED <<conf, outputs, structs, stack, calls, ret, status, panicked,
                   exported, ncalls, cur>>

\* keys := getValidateKeys(validate)
AskKeys ==
    /\ "getValidateKeys" \notin probe.asked
    /\ probe' = [probe EXCEPT !.asked = @ \cup {"getValidateKeys"},
                              !.keys = getValidateKeys(probe.validate)]
    /\ UNCHANGED <<conf, outputs, structs, stack, calls, ret, status, panicked,
                   exported, ncalls, cur>>

\* values := getValidateValues(validate), or the run-time panic of its index
\* expression.
AskValues ==
    /\ "getValidateValues" \notin probe.asked
    /\ probe' = [probe EXCEPT !.asked = @ \cup {"getValidateValues"},
                              !.values = getValidateValues(probe.validate).v,
                              !.panic = getValidateValues(probe.validate).panic]
    /\ UNCHANGED <<conf, outputs, structs, stack, calls, ret, status, panicked,
                   exported, ncalls, cur>>

NextZones == AskCurrent \/ AskKeys \/ AskValues

SpecZones == InitZones /\ [][NextZones]_vars

\* C14: of the tag C,dive,keys,K,endkeys,V the current zone is C, the key
\* zone K and the value zone V; of the tag C,dive,V the key zone is empty
\* and the value zone V.
C14_ZonePartition ==
    /\ "getValidateCurrent" \in probe.asked => probe.current = Join(probe.c, sComma)
    /\ "getValidateKeys" \in probe.asked => probe.keys = Join(probe.k, sComma)
    /\ "getValidateValues" \in probe.asked =>
            ~probe.panic /\ probe.values = Join(probe.v, sComma)

\* C14 but for the value zone of a tag that ends with its dive.
C14_ButDiveLast ==
    /\ "getValidateCurrent" \in probe.asked => probe.current = Join(probe.c, sComma)
    /\ "getValidateKeys" \in probe.asked => probe.keys = Join(probe.k, sComma)
    /\ ("getValidateValues" \in probe.asked /\ (probe.keyed \/ probe.v # <<>>)) =>
            ~probe.panic /\ probe.values = Join(probe.v, sComma)

(***************************************************************************)
(* The names of generic instantiations: two instantiations are registered  *)
(* under typeName, as AddType does.                                         *)
(***************************************************************************)
\* The largest number of type arguments.
MaxArgs == 2

\* Type arguments as reflect names them: a predeclared type, or a type T of
\* a package of path a or A, or a type TInt.
ArgNames == {<<"i", "n", "t">>, <<"a", ".", "T">>, <<"A", ".", "T">>, <<"a", ".", "T", "I", "n", "t">>}

RECURSIVE ArgListsOf(_)
ArgListsOf(n) ==
    IF n = 1 THEN {<<a>> : a \in ArgNames}
    ELSE ArgListsOf(n - 1) \cup
         {Append(l, a) : l \in {x \in ArgListsOf(n - 1) : Len(x) = n - 1}, a \in ArgNames}

\* reflect's Type.Name() of the instantiation of Pair with the arguments.
GenericName(args) == <<"P", "a", "i", "r">> \o <<"[">> \o Join(args, sComma) \o <<"]">>

InitGenerics ==
    /\ conf \in Confs
    /\ outputs = NoEntries
    /\ structs = 0
    /\ stack = <<>>
    /\ calls = <<>>
    /\ ret = <<>>
    /\ status = "idle"
    /\ panicked = NoPanic
    /\ exported = [valid |-> FALSE, text |-> ""]
    /\ ncalls = 0
    /\ cur = [t |-> "", outputs |-> NoEntries, structs |-> 0, stack |-> <<>>]
    /\ \E a, b \in ArgListsOf(MaxArgs) :
            probe = [args |-> <<a, b>>, asked |-> {}, names |-> <<<<>>, <<>>>>,
                     entries |-> {}]

\* The probe once its i-th instantiation is registered: an entry under its
\* typeName, unless there is one.
Registered(i) ==
    [probe EXCEPT
        !.asked = @ \cup {i},
        !.names[i] = getTypeNameWithGenerics(GenericName(probe.args[i])),
        !.entries = @ \cup {getTypeNameWithGenerics(GenericName(probe.args[i]))}]

RegisterFirst ==
    /\ 1 \notin probe.asked
    /\ probe' = Registered(1)
    /\ UNCHANGED <<conf, outputs, structs, stack, calls, ret, status, panicked,
                   exported, ncalls, cur>>

RegisterSecond ==
    /\ 2 \notin probe.asked
    /\ probe' = Registered(2)
    /\ UNCHANGED <<conf, outputs, structs, stack, calls, ret, status, panicked,
                   exported, ncalls, cur>>

NextGenerics == RegisterFirst \/ RegisterSecond

SpecGenerics == InitGenerics /\ [][NextGenerics]_vars

\* The argument name with its first letter capitalized.
Capitalized(arg) == <<ToTitle(arg[1])>> \o Tail(arg)

RECURSIVE Concat(_)
Concat(seqs) == IF seqs = <<>> THEN <<>> ELSE Head(seqs) \o Concat(Tail(seqs))

\* The identity the specification gives an instantiation.
Identity(args) == <<"P", "a", "i", "r">> \o Concat([i \in 1..Len(args) |-> Capitalized(args[i])])

\* C15: the identity of an instantiation is the base name followed by the
\* capitalized names of its arguments; two instantiations have the same
\* identity only when they are the same instantiation, so that registering
\* two instantiations leaves as many entries as there are different ones.
C15_InjectiveStable ==
    probe.asked = {1, 2} =>
        /\ \A i \in 1..2 : probe.names[i] = Identity(probe.args[i])
        /\ (probe.names[1] = probe.names[2]) <=> (probe.args[1] = probe.args[2])
        /\ Cardinality(probe.entries) = Cardinality({probe.args[1], probe.args[2]})

\* What holds of C15: the shape of the identity, and one entry for one
\* instantiation registered twice.
C15_ShapeAndStable ==
    probe.asked = {1, 2} =>
        /\ \A i \in 1..2 : probe.names[i] = Identity(probe.args[i])
        /\ (probe.args[1] = probe.args[2]) => Cardinality(probe.entries) = 1

(***************************************************************************)
(* Custom types                                                             *)
(***************************************************************************)
\* The struct types whose full name has a handler in the options.
CustomTypes == {t \in TypeIds : Kind(t) = "struct" /\ getFullName(t) \in conf.customTypes}

\* No custom type is expanded, on the stack or in the registry.
CustomUntouched ==
    \A t \in CustomTypes :
        /\ typeName(t) \notin DOMAIN outputs
        /\ \A i \in 1..Len(stack) : stack[i].name # typeName(t)
        /\ \A i \in 1..Len(calls) : calls[i].t = t => calls[i].fn = "ConvertType"

\* ConvertType of a custom type returns the text of its handler at once.
CustomReturns ==
    (Running /\ Top.fn = "ConvertType" /\ Top.pc = "enter" /\ Top.t \in CustomTypes)
    => /\ ret' = customFn(getFullName(Top.t))
       /\ calls' = Popped
       /\ stack' = stack
       /\ outputs' = outputs

\* C16: when ConvertType meets, once the pointers are followed, a type whose
\* full name has a handler, the text of the handler is its result; the type
\* is not expanded, no stack frame is pushed for it and it gets no entry in
\* the registry.
C16_CustomBypass == []CustomUntouched /\ [][CustomReturns]_vars

\* Money, with a field Decimal and a field *Decimal, is in the registry of
\* a converter with a handler for Decimal.
C16_Witness ==
    /\ DecimalType \in conf.customTypes
    /\ "Money" \in DOMAIN outputs
    /\ "Decimal" \notin DOMAIN outputs

\* The suffixes convertField wrote after the text of the type.
LineSuffix == ret[Len(ret)].v

\* The line has no .nullable() of convertField.
NoNullableSuffix == LineSuffix \in {",\n", ".optional(),\n"}

\* C17: the line of a field whose conversion went to a custom type handler,
\* the type of the field being the custom type or a pointer to it, has no
\* .nullable() suffix, whatever isNullable says of the field.
C17_CustomNoNullable ==
    (FieldDone /\ HostKind(probe.field.type) = "custom") => NoNullableSuffix

\* C17 for a field whose type is the custom type itself.
C17_DirectNoNullable ==
    (FieldDone /\ IsCustom(probe.field.type)) => NoNullableSuffix

\* C18: the line of a field is the line of the same field with the
\* directives of the ignore-list removed from its validate tag, suffixes
\* included, and the field without them is converted as well.
C18_IgnoredDropped ==
    "ignored removed" \in probe.asked =>
        /\ status # "panicked"
        /\ FieldDone => ret = probe.first

\* The line of a field F `validate:"required"` of each kind of host, as C19
\* has it.
RequiredLine(t) ==
    CASE t = "string" -> "  F: z.string().min(1),\n"
      [] t \in {"int", "PtrInt"} ->
            "  F: z.number().refine((val) => val !== 0, { message: \"Number is required and cannot be 0\" }),\n"
      [] t = "SliceString" -> "  F: z.string().array(),\n"
      [] t = "ArrInt" -> "  F: z.number().array().length(2),\n"
      [] t = "MapStringInt" -> "  F: z.record(z.string(), z.number()),\n"

\* A required field of one of the types `types` is converted, and its line
\* is the line of C19.
RequiredOn(types) ==
    (probe.field.type \in types /\ probe.field.validate = sRequired /\ calls = <<>>)
    => /\ status # "panicked"
       /\ FieldDone => Render(ret, conf.prefix) = RequiredLine(probe.field.type)

\* C19: required on a string host is a minimum length of one, on a numeric
\* host a refinement that the value is not zero; on a slice, array or map
\* host it adds nothing to the text and the conversion succeeds.
C19_RequiredPerHost ==
    RequiredOn({"string", "int", "PtrInt", "SliceString", "ArrInt", "MapStringInt"})

\* C19 but for the array host.
C19_ButArray == RequiredOn({"string", "int", "PtrInt", "SliceString", "MapStringInt"})

(***************************************************************************)
(* The order of suffixes and refinements in the text of a type              *)
(***************************************************************************)
Suffix(head) == [class |-> "suffix", head |-> head]
Refinement(head) == [class |-> "refine", head |-> head]
Nothing == [class |-> "none", head |-> ""]

\* What a directive with a value compiles to on each kind of host: a suffix
\* or a refinement, and how its text begins.
ValueDirective(kind, n) ==
    CASE kind = "string" ->
            (CASE n \in {"min", "gt", "gte"} -> Suffix(".min(")
               [] n \in {"max", "lt", "lte"} -> Suffix(".max(")
               [] n = "eq" -> Refinement(".refine((val) => val === \"")
               [] n = "ne" -> Refinement(".refine((val) => val !== \"")
               [] OTHER -> Nothing)
      [] kind = "number" ->
            (CASE n \in {"min", "gte"} -> Suffix(".gte(")
               [] n \in {"max", "lte"} -> Suffix(".lte(")
               [] n = "gt" -> Suffix(".gt(")
               [] n = "lt" -> Suffix(".lt(")
               [] n = "eq" -> Refinement(".refine((val) => val === ")
               [] n = "ne" -> Refinement(".refine((val) => val !== ")
               [] OTHER -> Nothing)
      [] kind = "slice" ->
            (CASE n \in {"min", "gt", "gte"} -> Suffix(".min(")
               [] n \in {"max", "lt", "lte"} -> Suffix(".max(")
               [] n = "eq" -> Suffix(".length(")
               [] n = "ne" -> Refinement(".refine((val) => val.length !== ")
               [] OTHER -> Nothing)
      [] kind = "map" ->
            (CASE n \in {"min", "gte"} ->
                    Refinement(".refine((val) => Object.keys(val).length >= ")
               [] n \in {"max", "lte"} ->
                    Refinement(".refine((val) => Object.keys(val).length <= ")
               [] n = "gt" -> Refinement(".refine((val) => Object.keys(val).length > ")
               [] n = "lt" -> Refinement(".refine((val) => Object.keys(val).length < ")
               [] n = "eq" -> Refinement(".refine((val) => Object.keys(val).length === ")
               [] n = "ne" -> Refinement(".refine((val) => Object.keys(val).length !== ")
               [] OTHER -> Nothing)
      [] OTHER -> Nothing

\* The same for required.
RequiredDirective(kind, t) ==
    CASE kind = "string" -> Suffix(".min(1)")
      [] kind = "number" ->
            Refinement(".refine((val) => val !== 0, { message: \"Number is required and cannot be 0\" })")
      [] kind = "record" /\ t = "Time" ->
            Refinement(".refine((val) => val.getTime() !== new Date('0001-01-01T00:00:00Z').getTime() && val.getTime() !== new Date(0).getTime(), 'Invalid date')")
      [] OTHER -> Nothing

\* A part of the validate tag of a field of type t: ignored, custom (a
\* refinement when its text begins with ".refine"), or built in.
Directive(t, part) ==
    IF checkIsIgnored(conf, PartName(part)) THEN Nothing
    ELSE IF Str(PartName(part)) \in DOMAIN conf.customTags
    THEN (IF HasPrefix(conf.customTags[Str(PartName(part))], <<".", "r", "e", "f", "i", "n", "e">>)
          THEN Refinement(Str(conf.customTags[Str(PartName(part))]))
          ELSE Suffix(Str(conf.customTags[Str(PartName(part))])))
    ELSE IF part = sRequired THEN RequiredDirective(HostKind(t), FirstNonPointer(t))
    ELSE IF Contains(part, sEq) THEN ValueDirective(HostKind(t), Str(PartName(part)))
    ELSE Nothing

\* The heads of the directives of class `class` of the tag, in tag order.
RECURSIVE HeadsOfTag(_, _, _)
HeadsOfTag(t, parts, class) ==
    IF parts = <<>> THEN <<>>
    ELSE (IF Directive(t, Head(parts)).class = class
          THEN <<Directive(t, Head(parts)).head>> ELSE <<>>)
         \o HeadsOfTag(t, Tail(parts), class)

\* How the text of a directive of class `class` can begin on a field of
\* type t.
ClassHeads(t, class) ==
    {Directive(t, part).head : part \in {q \in HostTokens : Directive(t, q).class = class}}

\* The pieces of the text that are among `heads`, in the order of the text,
\* and their places.
HeadsOfText(text, heads) ==
    [i \in 1..Len(SelectSeq(text, LAMBDA tok : tok.v \in heads)) |->
        SelectSeq(text, LAMBDA tok : tok.v \in heads)[i].v]
Places(text, heads) == {i \in 1..Len(text) : text[i].v \in heads}

\* The hosts whose validate tag is compiled into suffixes and refinements.
CompilingKinds == {"string", "number", "record", "slice", "array", "map"}

\* In `text`, the text of a field of type t tagged `validate`, the suffixes
\* `sufs` and the refinements `refs` are in the order of the tag, and every
\* refinement is after every suffix and after the length of an array.
InOrder(t, validate, text, sufs, refs) ==
    /\ HeadsOfText(text, sufs) = HeadsOfTag(t, Split(validate, sComma), "suffix")
    /\ HeadsOfText(text, refs) = HeadsOfTag(t, Split(validate, sComma), "refine")
    /\ \A i \in Places(text, refs) :
            \A j \in Places(text, sufs \cup {".length(2)"}) : j < i

\* C20: in the text of the type of a field every refinement comes after
\* every suffix, the suffixes are in the order of their directives in the
\* tag, and so are the refinements.
C20_RefinementsLast ==
    (FieldDone /\ HostKind(probe.field.type) \in CompilingKinds) =>
        InOrder(probe.field.type, probe.field.validate, ret,
                ClassHeads(probe.field.type, "suffix"),
                ClassHeads(probe.field.type, "refine"))

\* The line of a string field tagged ne=1,min=1 under options with custom
\* tags is written: the refinement of ne is after the suffix of min.
C20_Witness ==
    /\ FieldDone
    /\ conf = TaggedConf
    /\ probe.field.type = "string"
    /\ probe.field.validate = <<"n", "e", "=", "1", ",", "m", "i", "n", "=", "1">>
    /\ HeadsOfText(ret, ClassHeads("string", "suffix")) = <<".min(">>
    /\ HeadsOfText(ret, ClassHeads("string", "refine")) = <<".refine((val) => val !== \"">>

(***************************************************************************)
(* Embedded fields                                                          *)
(***************************************************************************)
\* The records with an entry in the registry and the embedded fields of each.
InRegistry(t) == Kind(t) = "struct" /\ TypeTable[t].name # <<>> /\ typeName(t) \in DOMAIN outputs
EmbeddedOf(t) == {i \in 1..NumField(t) : FieldAt(t, i).anonymous}

\* The text of the entry of t has a property named after its i-th field, in
\* the builder expression or in the explicit type.
HasProperty(t, i) ==
    \E k \in 1..Len(outputs[typeName(t)].data) :
        outputs[typeName(t)].data[k].v \in
            {"  " \o fieldName(FieldAt(t, i)) \o ": ", "  " \o fieldName(FieldAt(t, i)) \o "?: "}

\* C21: in the entry of a record, whatever its shape, no property is named
\* after an embedded field (the record of the field is merged).
C21_EmbeddedMerged ==
    \A t \in TypeIds :
        InRegistry(t) => \A i \in EmbeddedOf(t) : ~HasProperty(t, i)

\* C21 for the records that are not self-referential.
C21_MergedInBuilder ==
    \A t \in TypeIds :
        (InRegistry(t) /\ ~SelfRefShape(conf, typeName(t), outputs[typeName(t)].data)) =>
            \A i \in EmbeddedOf(t) : ~HasProperty(t, i)

(***************************************************************************)
(* The stack of the records being expanded                                  *)
(***************************************************************************)
\* No name is in two frames of c.stack.
StackUnique == \A i, j \in 1..Len(stack) : stack[i].name = stack[j].name => i = j

\* C22: while AddType calls run and none has panicked with frames on the
\* stack (the latest AddType found the stack empty and has not panicked),
\* no name is in two frames of the stack.
C22_StackUnique ==
    (status \in {"running", "idle"} /\ cur.stack = <<>>) => StackUnique

\* The second call on a converter is three records deep: A, B and C are on
\* the stack.
C22_Witness ==
    /\ status = "running"
    /\ ncalls = 2
    /\ cur.stack = <<>>
    /\ Len(stack) = 3
    /\ StackUnique

\* C23: when an AddType call has finished, by returning or by panicking,
\* the stack is empty again.
C23_StackRestored == status \in {"idle", "panicked"} => stack = <<>>

(***************************************************************************)
(* The shape of an entry                                                    *)
(***************************************************************************)
NamedRecords == {t \in TypeIds : Kind(t) = "struct" /\ TypeTable[t].name \notin {<<>>, sTime}}

\* A field of the record p reaches the record n, another record.
RefersTo(p, n) ==
    /\ typeName(p) # typeName(n)
    /\ \E i \in 1..NumField(p) :
            /\ fieldName(FieldAt(p, i)) # "-"
            /\ Reaches(FieldAt(p, i).type, typeName(n), Cardinality(TypeIds))

\* C24: the entry of a record has the self-referential shape exactly when
\* the record refers to itself (the reference is met while its own frame is
\* the top of the stack); a record p that refers to a self-referential
\* record n, and not to itself, has the other shape, names n by its schema
\* name and not through z.lazy, and n is registered before p.
C24_SelfRefPerFrame ==
    \A p \in NamedRecords :
        typeName(p) \in DOMAIN outputs =>
            /\ SelfRefShape(conf, typeName(p), outputs[typeName(p)].data)
                    <=> SelfReferential(p)
            /\ \A n \in NamedRecords :
                    (RefersTo(p, n) /\ SelfReferential(n) /\ ~SelfReferential(p)) =>
                        /\ typeName(n) \in Refs(outputs[typeName(p)].data)
                        /\ typeName(n) \notin Lazies(outputs[typeName(p)].data)
                        /\ typeName(n) \in DOMAIN outputs
                        /\ outputs[typeName(n)].order < outputs[typeName(p)].order

\* ConvertSlice of Item and Parent has returned: Parent, which points to the
\* self-referential Node, is registered after it and in the other shape.
C24_Witness ==
    /\ status = "idle"
    /\ {"Node", "Parent"} \subseteq DOMAIN outputs
    /\ SelfRefShape(conf, "Node", outputs["Node"].data)
    /\ ~SelfRefShape(conf, "Parent", outputs["Parent"].data)
    /\ "Node" \in Refs(outputs["Parent"].data)

(***************************************************************************)
(* Nested containers: one field whose type is a container, or a container   *)
(* of containers, and whose validate tag has one zone per nesting level     *)
(***************************************************************************)
NestedTypes == {"SliceSlice", "SliceMap", "MapSlice", "MapMap"}

\* The zones a tag gives: z[d] says that the element at depth d has the
\* directive min=d+1, k[d] that the keys of the map at depth d-1 have the
\* directive max=d+7 between keys and endkeys, bare that the last token of
\* the tag is a dive.
NestedZones == [z0 : BOOLEAN, z1 : BOOLEAN, z2 : BOOLEAN, k1 : BOOLEAN, k2 : BOOLEAN,
                bare : BOOLEAN]

\* The validate tag of the zones `zs` on a type of `depth` nested containers:
\* zone,dive,[keys..endkeys,]zone,dive,...  A dive that nothing follows is
\* written only in a bare tag.
NestedTag(zs, depth) ==
    LET ZoneMin(on, n) == IF on THEN <<<<"m", "i", "n", "=">> \o Itoa(n)>> ELSE <<>>
        KeysBracket(on, n) == IF on THEN <<<<"k", "e", "y", "s">>, <<"m", "a", "x", "=">> \o Itoa(n), <<"e", "n", "d", "k", "e", "y", "s">>>> ELSE <<>>
        AfterDive(rest) == IF rest = <<>> /\ ~zs.bare THEN <<>> ELSE <<sDive>> \o rest
        deeper == IF depth = 2 THEN AfterDive(KeysBracket(zs.k2, 9) \o ZoneMin(zs.z2, 3))
                  ELSE <<>>
    IN  Join(ZoneMin(zs.z0, 1)
                \o AfterDive(KeysBracket(zs.k1, 8) \o ZoneMin(zs.z1, 2) \o deeper),
             sComma)

InitNested ==
    /\ conf = [prefix |-> "", customTypes |-> {}, customTags |-> <<>>, ignoreTags |-> {}]
    /\ outputs = NoEntries
    /\ structs = 0
    /\ stack = <<[name |-> "Host", selfRef |-> FALSE]>>
    /\ \E t \in NestedTypes \cup {"SliceString", "MapStringString"}, zs \in NestedZones :
        \E depth \in {IF Kind(Elem(t)) \in {"slice", "map"} THEN 2 ELSE 1} :
            \* a keys bracket is written only for a level that is a map
            /\ zs.k1 => Kind(t) = "map"
            /\ zs.k2 => Kind(Elem(t)) = "map"
            /\ zs.z2 => depth = 2
            \* in a bare tag nothing follows the last dive
            /\ zs.bare => IF depth = 2 THEN ~zs.k2 /\ ~zs.z2 ELSE ~zs.k1 /\ ~zs.z1
            /\ probe = [field |-> Field("F", t, <<>>, NestedTag(zs, depth)), asked |-> {},
                        zones |-> zs]
            /\ calls = <<TypeFrame(t, NestedTag(zs, depth), 1)>>
    /\ ret = <<>>
    /\ status = "running"
    /\ panicked = NoPanic
    /\ exported = [valid |-> FALSE, text |-> ""]
    /\ ncalls = 0
    /\ cur = [t |-> "", outputs |-> NoEntries, structs |-> 0, stack |-> <<>>]

NextNested ==
    \/ ConvertTypeSlice \/ ConvertTypeSliceReturn
    \/ ConvertTypeMap \/ ConvertTypeMapReturn
    \/ ConvertTypeScalar
    \/ FieldReturn

SpecNested == InitNested /\ [][NextNested]_vars

\* ConvertType has returned the text of the type of the nested field.
NestedTyped == status = "running" /\ calls = <<>> /\ ~FieldDone

\* What a directive min=n compiles to on a host of kind `kind`.
MinOn(kind, on, n) ==
    IF ~on THEN ""
    ELSE IF kind = "map"
         THEN ".refine((val) => Object.keys(val).length >= " \o ToString(n) \o ", 'Map too small')"
         ELSE ".min(" \o ToString(n) \o ")"

KeyWith(on, n) == "z.string()" \o (IF on THEN ".max(" \o ToString(n) \o ")" ELSE "")

\* The text of type `t` when the element at each depth has the directives of
\* its own zone `z` and each map the key directives of its own bracket `k`.
OwnLevel(t, z, k) ==
    LET leaf == "z.string()" \o MinOn("string", z[3], 3)
        inner == CASE Kind(Elem(t)) = "map" ->
                        "z.record(" \o KeyWith(k[2], 9) \o ", " \o leaf \o ")"
                            \o MinOn("map", z[2], 2)
                   [] Kind(Elem(t)) = "slice" ->
                        leaf \o ".array()" \o MinOn("slice", z[2], 2)
                   [] OTHER -> "z.string()" \o MinOn("string", z[2], 2)
    IN  IF Kind(t) = "map"
        THEN "z.record(" \o KeyWith(k[1], 8) \o ", " \o inner \o ")" \o MinOn("map", z[1], 1)
        ELSE inner \o ".array()" \o MinOn("slice", z[1], 1)

ZonesOf(zs) == <<zs.z0, zs.z1, zs.z2>>

BracketsOf(zs) == <<zs.k1, zs.k2>>

\* The nested types of `types` are emitted with every zone at its own level.
OwnLevelOn(types) ==
    (NestedTyped /\ probe.field.type \in types)
        => Render(ret, "") = OwnLevel(probe.field.type, ZonesOf(probe.zones),
                                      BracketsOf(probe.zones))

\* C25: in a container of containers the directives after the n-th dive are
\* applied to the element at depth n and to no other depth, and a
\* keys..endkeys bracket to the keys of the map whose dive precedes it.
C25_ZonesPerLevel ==
    ~probe.zones.bare =>
        /\ status # "panicked"
        /\ OwnLevelOn(NestedTypes)

\* What holds of C25: a slice passes its element everything after its dive,
\* so the zones of a slice of slices and of a slice of maps are applied at
\* their own levels.
C25_UnderSlice == OwnLevelOn({"SliceSlice", "SliceMap"})

\* A tag whose last token is a dive is converted without an abort on the
\* containers `types`, the element being emitted with no directive.
DiveLastOn(types) ==
    (probe.zones.bare /\ probe.field.type \in types) =>
        /\ status # "panicked"
        /\ NestedTyped => Render(ret, "") = OwnLevel(probe.field.type, ZonesOf(probe.zones),
                                                     BracketsOf(probe.zones))

\* C29: a slice or map field whose validate tag has dive as its last token
\* ("dive", "min=1,dive") is converted without an abort, its value zone
\* being empty and its element emitted with no directive.
C29_DiveLastCompletes == DiveLastOn({"SliceString", "MapStringString"})

\* What holds of C29: on a slice, and on a slice of slices, a tag that ends
\* with its dive is converted and the element has no directive.
C29_SliceDiveLast == DiveLastOn({"SliceString", "SliceSlice"})

\* The case of C29_SliceDiveLast: a slice field with the tag "dive" has been
\* converted.
C29_Witness ==
    /\ NestedTyped
    /\ probe.zones.bare
    /\ probe.field.type = "SliceString"
    /\ probe.field.validate = sDive
    /\ Render(ret, "") = "z.string().array()"

(***************************************************************************)
(* Bound arguments: one string or slice field with gt=N or lt=N, N any      *)
(* text                                                                     *)
(***************************************************************************)
BoundArgs == {<<"-", "2">>, <<"-", "1">>, <<"0">>, <<"1">>, <<"2">>, <<"+", "1">>, <<"x">>, <<"1", "x">>, <<"1", ".", "5">>, <<"-">>}

InitBounds ==
    /\ conf \in FieldConfs
    /\ outputs = NoEntries
    /\ structs = 0
    /\ stack = <<[name |-> "Host", selfRef |-> FALSE]>>
    /\ \E t \in {"string", "SliceString", "SliceSlice"}, op \in {<<"g", "t">>, <<"l", "t">>},
          arg \in BoundArgs :
            \* gt=N or lt=N, alone or after required
            \E v \in {op \o sEq \o arg, <<"r", "e", "q", "u", "i", "r", "e", "d", ",">> \o op \o sEq \o arg} :
                /\ probe = [field |-> Field("F", t, <<>>, v), asked |-> {},
                            op |-> Str(op), arg |-> arg]
                /\ calls = <<TypeFrame(t, v, 1)>>
    /\ ret = <<>>
    /\ status = "running"
    /\ panicked = NoPanic
    /\ exported = [valid |-> FALSE, text |-> ""]
    /\ ncalls = 0
    /\ cur = [t |-> "", outputs |-> NoEntries, structs |-> 0, stack |-> <<>>]

NextBounds ==
    \/ ConvertTypeSlice \/ ConvertTypeSliceReturn
    \/ ConvertTypeScalar
    \/ FieldReturn

SpecBounds == InitBounds /\ [][NextBounds]_vars

\* The argument is not an integer, or is a negative one.
NotAnInteger(arg) == Atoi(arg).err

Negative(arg) == ~Atoi(arg).err /\ Atoi(arg).val < 0

\* The conversion of the field has not aborted and has emitted its line.
BoundEmitted == FieldDone /\ status = "running"

\* On the hosts `hosts` the arguments satisfying `bad` abort the conversion.
AbortOn(hosts, bad(_)) ==
    (probe.field.type \in hosts /\ bad(probe.arg)) => ~BoundEmitted

BadArg(arg) == NotAnInteger(arg) \/ Negative(arg)

\* C26: on a string and on a slice, gt=N and lt=N with N negative or not an
\* integer abort the conversion; no adjusted bound is emitted.
C26_BadBoundAborts == AbortOn({"string", "SliceString", "SliceSlice"}, BadArg)

\* What holds of C26: an argument that is not an integer aborts on both
\* hosts, and a negative one aborts on a slice.
C26_NonIntegerAborts ==
    /\ AbortOn({"string", "SliceString", "SliceSlice"}, NotAnInteger)
    /\ AbortOn({"SliceString", "SliceSlice"}, Negative)

\* An abort of C26 has happened: gt=-1 on a slice.
C26_Witness ==
    /\ status = "panicked"
    /\ probe.field.type = "SliceString"
    /\ probe.op = "gt"
    /\ probe.arg = <<"-", "1">>

(***************************************************************************)
(* Excluded fields: AddType of a record with fields named "-", then on a    *)
(* fresh converter AddType of the same record without them                  *)
(***************************************************************************)
\* The record with the excluded fields absent.
Absent == [Omit |-> "OmitBare", Gap |-> "GapBare", Quiet |-> "QuietBare"]

InitOmit ==
    /\ conf \in Confs
    /\ outputs = NoEntries
    /\ structs = 0
    /\ stack = <<>>
    /\ \E t \in DOMAIN Absent :
            /\ probe = [t |-> t, asked |-> {}, outputs |-> NoEntries, structs |-> 0]
            /\ calls = <<[Frame("api", "") EXCEPT !.op = "AddType", !.rest = <<t>>]>>
    /\ ret = <<>>
    /\ status = "running"
    /\ panicked = NoPanic
    /\ exported = [valid |-> FALSE, text |-> ""]
    /\ ncalls = 1
    /\ cur = [t |-> "", outputs |-> NoEntries, structs |-> 0, stack |-> <<>>]

\* AddType has returned: a new converter with the same options is given the
\* record without the excluded fields.
AddTypeAbsent ==
    /\ status = "idle"
    /\ probe.asked = {}
    /\ probe' = [probe EXCEPT !.asked = {"absent"}, !.outputs = outputs,
                              !.structs = structs]
    /\ outputs' = NoEntries
    /\ structs' = 0
    /\ stack' = <<>>
    /\ calls' = <<[Frame("api", "") EXCEPT !.op = "AddType", !.rest = <<Absent[probe.t]>>]>>
    /\ status' = "running"
    /\ ncalls' = ncalls + 1
    /\ UNCHANGED <<conf, ret, panicked, exported, cur>>

NextOmit ==
    \/ AddTypeConvert \/ AddTypeStore \/ ApiReturn
    \/ TopLevelEnter \/ TopLevelReturn
    \/ StructField \/ StructFieldReturn \/ StructReturn
    \/ ConvertTypeNamed \/ ConvertTypeNamedReturn
    \/ ConvertTypeScalar
    \/ AddTypeAbsent

SpecOmit == InitOmit /\ [][NextOmit]_vars

\* Both AddType calls have returned.
BothAdded == status = "idle" /\ probe.asked = {"absent"}

\* C27: a field whose json name is "-" has no effect: AddType does not abort
\* on its type or its validate tag, and the registry and the counter after
\* AddType are those obtained when the field is absent from the record.
C27_ExcludedNoEffect ==
    /\ status # "panicked"
    /\ BothAdded => (outputs = probe.outputs /\ structs = probe.structs)

\* Both registries of C27 are there, and the record is in them.
C27_Witness ==
    /\ BothAdded
    /\ probe.t = "Omit"
    /\ DOMAIN outputs = {"Omit"}
    /\ DOMAIN probe.outputs = {"Omit"}

(***************************************************************************)
(* The insertion indices of the registry                                    *)
(***************************************************************************)
\* The insertion indices of the entries of the registry.
Orders == {outputs[n].order : n \in DOMAIN outputs}

\* Every AddType call so far has returned normally: the converter is idle and
\* no abort has left a frame on the stack.
ReturnedNormally == status = "idle" /\ stack = <<>>

\* C28: after AddType calls that returned normally the counter is the number
\* of entries of the registry and the insertion indices of the entries are
\* exactly 0..n-1, each once.
C28_SequentialIndices ==
    ReturnedNormally =>
        /\ structs = Cardinality(DOMAIN outputs)
        /\ Orders = 0..(structs - 1)
        /\ \A n1, n2 \in DOMAIN outputs : outputs[n1].order = outputs[n2].order => n1 = n2

\* Two AddType calls have returned normally, and each has registered nested
\* records ahead of its root.
C28_Witness ==
    /\ ReturnedNormally
    /\ ncalls = 2
    /\ structs >= 4
    /\ C28_SequentialIndices

(***************************************************************************)
(* Export, and the Export at the end of Convert and ConvertSlice            *)
(***************************************************************************)
\* The entries of the registry `outs` from insertion index 0 upwards.
ByIndex(outs) ==
    [i \in 1..Cardinality(DOMAIN outs) |->
        outs[CHOOSE n \in DOMAIN outs : outs[n].order = i - 1]]

\* A step of Export: a call is counted and the converter is not running.
ExportStep == status \in {"idle", "panicked"} /\ status' = status /\ ncalls' = ncalls + 1

\* The step in which Convert or ConvertSlice returns c.Export().
ConvertReturnStep ==
    /\ status = "running"
    /\ status' = "idle"
    /\ calls # <<>>
    /\ calls[1].op \in {"Convert", "ConvertSlice"}

\* Export leaves the registry, the counter and the stack as they are.
ExportReadOnly == ExportStep => UNCHANGED <<outputs, structs, stack>>

\* An Export that follows an Export returns the same text.
ExportAgain ==
    (ExportStep /\ exported.valid /\ exported.text \in Exports(conf, outputs))
        => exported'.text = exported.text

\* Convert and ConvertSlice return the entries in insertion order, those of
\* the earlier calls (the text the earlier call returned) first.
ExportCumulative ==
    ConvertReturnStep =>
        /\ exported'.valid
        /\ exported'.text = exportText(conf, ByIndex(outputs))
        /\ exported.valid =>
            \E k \in 0..Cardinality(DOMAIN outputs) :
                /\ exported.text = exportText(conf, SubSeq(ByIndex(outputs), 1, k))
                /\ exported'.text =
                        exported.text
                            \o exportText(conf, SubSeq(ByIndex(outputs), k + 1,
                                                       Cardinality(DOMAIN outputs)))

\* C30: Export changes neither the registry, the counter nor the stack, two
\* consecutive Export calls return the same text, and Convert or ConvertSlice
\* after earlier calls returns the entries of the earlier calls followed by
\* the newly registered ones in order of insertion index.
C30_ExportCumulative == [][ExportReadOnly /\ ExportAgain /\ ExportCumulative]_vars

\* Convert or ConvertSlice has returned after an earlier call that returned
\* a text, with entries of the earlier call and new ones in the registry.
C30_Witness ==
    /\ status = "idle"
    /\ ncalls = 2
    /\ exported.valid
    /\ cur.t \in {"Money", "Parent", "Wire"}
    /\ cur.structs > 0
    /\ structs > cur.structs
    /\ exported.text = exportText(conf, ByIndex(outputs))
====
